---- MODULE Spec2Model ----
(***************************************************************************)
(* Vault storage engine of the FlashCard application: the set repository   *)
(* (src/vault/vault_manager.py), the icon set registry                     *)
(* (src/vault/icon_manager.py) and the set model (src/models/flashcard.py).*)
(*                                                                         *)
(* Names (set names, file names) are sequences of one-character strings,   *)
(* so that f"{name} {counter}" and the character checks of                 *)
(* validate_set_name are computed as the code computes them.  A file or a  *)
(* directory that may be missing is <<>> when missing and <<content>> when *)
(* present.  Timestamps are integers read from `clock`; None is -1.        *)
(***************************************************************************)
EXTENDS Integers, Sequences, FiniteSets, TLC

\* ------------------------------------------------------------------ bounds
\* the number of calls made on the vault in one behaviour of each specification
MaxCalls == 4
MaxArchiveCalls == 5
MaxMergeCalls == 5
MaxIconCalls == 6
MaxMergeFailCalls == 5
MaxReplaceCalls == 5
MaxBlockCalls == 5
MaxCleanupCalls == 5
MaxIntegrityCalls == 1
MaxCopyCalls == 3
MaxValidateCalls == 2
MaxNameCalls == 3
MaxLoadCalls == 3
MaxImportNameCalls == 4
MaxRegistryCalls == 5
MaxDifficultyCalls == 3
MaxSideCalls == 3
MaxSafeNameCalls == 1
MaxImportFailCalls == 4
MaxRoundTripCalls == 5
MaxShortLen == 3

\* ------------------------------------------------------- program constants
MaxSetNameLen == 128
InvalidChars == {"<", ">", ":", "\"", "/", "\\", "|", "?", "*"}
icon_sizes == {256, 128, 64, 32, 16}

\* ------------------------------------------------------------ input values
NoneT == -1
Absent == << >>
Some(x) == << x >>
EmptyDir == << >>

NameA == << "A" >>
NameB == << "B" >>
NameA2 == << "A", " ", "2" >>
NameBad == << "A", ":" >>
\* names around the length limit, and names that fail more than one check
NameBlank == << " " >>
NameMax == [i \in 1..128 |-> "x"]
NameLong == [i \in 1..129 |-> "x"]
NameLongBad == [i \in 1..129 |-> IF i = 1 THEN "?" ELSE "x"]
NameLongBlank == [i \in 1..129 |-> " "]
ValidateInputs ==
  {<< >>, NameBlank, NameA, NameB, NameBad, NameMax, NameLong, NameLongBad, NameLongBlank}

DefaultIcon == "default"
IconI == "I"
IconNameInputs == {IconI}

\* source images given to install_custom_icon: two readable ones and a file
\* with a supported extension that PIL cannot open
ImageInputs == {"img1", "img2", "corrupt"}
GeneratedIcon == "generated"

\* files picked in the dialogs of the image, audio and video edit widgets:
\* base name, bytes, and for an image the size PIL reports
ImageSources ==
  { [name |-> << "p", ".", "g" >>, bytes |-> "bytes1", size |-> << 1, 1 >>],
    [name |-> << "p", ".", "g" >>, bytes |-> "bytes2", size |-> << 2, 2 >>],
    [name |-> << "q", ".", "g" >>, bytes |-> "bytes3", size |-> << 3841, 1 >>] }
AudioSources ==
  { [name |-> << "s", ".", "w", "a", "v" >>, bytes |-> "bytes4"],
    [name |-> << "s", ".", "t", "x", "t" >>, bytes |-> "bytes5"] }
VideoSources ==
  { [name |-> << "s", ".", "m", "p", "4" >>, bytes |-> "bytes6"],
    [name |-> << "s", ".", "w", "a", "v" >>, bytes |-> "bytes4"] }
BlockTypes == {"image", "audio", "video"}
Sides == {"information_side", "answer_side"}

\* source files for copy_media_file on its own: names that meet in one target
\* name, a name that needs sanitising, and one that is a suffixed name already
CopySources ==
  { [name |-> << "p", ".", "g" >>, bytes |-> "bytes1"],
    [name |-> << "p", ".", "g" >>, bytes |-> "bytes2"],
    [name |-> << "p", "_", "2", ".", "g" >>, bytes |-> "bytes3"],
    [name |-> << ".", "p", ":", "g", " " >>, bytes |-> "bytes4"] }
MediaTypes == {"image", "audio", "video"}

\* source media files given to copy_media_file: base name and bytes
MediaInputs ==
  { [name |-> << "p", ".", "g" >>, bytes |-> "bytes1"],
    [name |-> << "p", ".", "g" >>, bytes |-> "bytes2"] }

\* ------------------------------------------------------------------ state
VARIABLES
  sets,       \* sets/<name>/ on disk: directory name -> directory content
  cache,      \* VaultManager.sets_cache: key -> FlashCardSet object
  icons,      \* icons/<name>/ on disk: icon set name -> (size -> bytes)
  available,  \* IconManager.available_icon_sets
  archive,    \* the ZIP file written by the last export
  iv,         \* the import_vault call in progress, and its result
  clock,      \* what datetime.now() returns
  idgen,      \* number of uuid4 values drawn so far
  pyqt,       \* PYQT_AVAILABLE
  budget,     \* how many calls the behaviour may make
  backups,    \* the vault_backup_<timestamp> siblings of the vault directory
  sets_dir,   \* whether the vault directory and its sets/ exist
  hist        \* the last calls, latest first: operation, arguments, exception or "ok"

vars == << sets, cache, icons, available, archive, iv, clock, idgen, pyqt, budget,
          backups, sets_dir, hist >>

\* ------------------------------------------------------- generic helpers
Put(f, k, v) == [x \in (DOMAIN f) \cup {k} |-> IF x = k THEN v ELSE f[x]]
Drop(f, k) == [x \in (DOMAIN f) \ {k} |-> f[x]]
Get(d, k, default) == IF k \in DOMAIN d THEN d[k] ELSE default
IsPresent(o) == o # Absent
Content(o) == o[1]

DigitChars == << "0", "1", "2", "3", "4", "5", "6", "7", "8", "9" >>

RECURSIVE Str(_)
\* str(k) for a counter k >= 0
Str(k) == IF k < 10 THEN << DigitChars[k + 1] >>
          ELSE Str(k \div 10) \o << DigitChars[(k % 10) + 1] >>

\* f"{name} {counter}"
Suffixed(name, counter) == name \o << " " >> \o Str(counter)

\* str.strip(): leading and trailing blanks removed
Strip(s) ==
  LET inked == {i \in 1..Len(s) : s[i] # " "}
  IN  IF inked = {} THEN << >>
      ELSE SubSeq(s, CHOOSE i \in inked : \A j \in inked : i <= j,
                     CHOOSE i \in inked : \A j \in inked : i >= j)

\* ---------------------------------------------------------------- mutations
\* faulty variants of the definitions below; a property that still holds with
\* one of them in place of the original does not depend on the original.
\* to_dict that forgets the tags
to_dict_NoTags(fs) ==
  [name |-> fs.name, description |-> fs.description, icon_set |-> fs.icon_set,
   tags |-> << >>, difficulty_level |-> fs.difficulty_level,
   created_date |-> fs.created_date, last_accessed |-> fs.last_accessed,
   card_count |-> Len(fs.cards)]
\* cards_to_dict that writes no card
cards_to_dict_NoCards(fs) == [cards |-> << >>]
\* an archive that leaves out sounds/
ZipDir_NoSounds(d) ==
  [json |-> d.json, cards |-> d.cards,
   images |-> IF d.images = << >> \/ d.images[1] = << >> THEN << >> ELSE d.images,
   sounds |-> << >>,
   icons |-> [n \in {x \in DOMAIN d.icons : d.icons[x] # << >>} |-> d.icons[n]]]
\* import_set that copies every bundled icon set over the local one
ImportSetIcons_Overwrite(ic, bundled) ==
  [n \in (DOMAIN ic) \cup (DOMAIN bundled) |-> IF n \in DOMAIN bundled THEN bundled[n] ELSE ic[n]]
\* a merge that keeps the local icon sets
MergeIcons_KeepLocal(ic, bundled) ==
  [n \in (DOMAIN ic) \cup (DOMAIN bundled) |-> IF n \in DOMAIN ic THEN ic[n] ELSE bundled[n]]
\* a merge loop in which Ignore does not skip the staged set
Skips_NotOnIgnore(collides, ignore_all, asked, answer) ==
  \/ collides /\ ignore_all
  \/ asked /\ answer.result_action = 3
\* a merge loop that forgets the Ignore-all answer
Skips_ForgetsIgnoreAll(collides, ignore_all, asked, answer) ==
  asked /\ answer.result_action \in {2, 3}
\* a merge loop in which an earlier Ignore-all also skips the sets that do not collide
Skips_AllAfterIgnoreAll(collides, ignore_all, asked, answer) ==
  \/ ignore_all
  \/ asked /\ answer.result_action \in {2, 3}
\* a collection of references that looks at image blocks only
referenced_files_ImagesOnly(flash_set) ==
  UNION {{flash_set.cards[ci][side][bi].image_path :
            bi \in {i \in 1..Len(flash_set.cards[ci][side]) :
                      /\ flash_set.cards[ci][side][i].block_type = "image"
                      /\ flash_set.cards[ci][side][i].image_path # << >>}} :
           ci \in 1..Len(flash_set.cards), side \in Sides}
\* an except branch that does not report the set
CopyFailed_Silent(ivs, original_name) == ivs
\* a conflict loop that tries one suffix only
FreeMediaName_NoLoop(safe_name, counter, files) ==
  LET dot == IF \E i \in 2..(Len(safe_name) - 1) : safe_name[i] = "."
             THEN CHOOSE i \in 2..(Len(safe_name) - 1) :
                    safe_name[i] = "." /\ \A j \in (i + 1)..Len(safe_name) : safe_name[j] # "."
             ELSE Len(safe_name) + 1
  IN  SubSeq(safe_name, 1, dot - 1) \o << "_" >> \o Str(counter)
        \o SubSeq(safe_name, dot, Len(safe_name))
\* a renamed set copied without the rewrite of set.json
MergedDir_KeepsName(staged, original_name, import_name) == staged
\* an auto-rename that does not look for a free name
FirstFree_NoLoop(original_name, counter, existing_sets) ==
  original_name \o << " ", "2" >>

\* ------------------------------------------------- models/flashcard.py
\* FlashCard.__init__: a card with a fresh card_id and two empty sides
NewFlashCard(id, now) ==
  [card_id |-> id, information_side |-> << >>, answer_side |-> << >>,
   status |-> "Unknown", created_date |-> now, last_studied |-> NoneT]

\* TextBlock.__init__ followed by set_text
NewTextBlock(id, now, text) ==
  [block_id |-> id, block_type |-> "text", text_content |-> text,
   font_size |-> 12, alignment |-> "left", created_date |-> now]

\* TextBlock.to_dict
TextBlockToDict(b) ==
  [block_id |-> b.block_id, block_type |-> b.block_type,
   text_content |-> b.text_content, font_size |-> b.font_size,
   alignment |-> b.alignment, created_date |-> b.created_date]

\* TextBlock.from_dict
TextBlockFromDict(d, now) ==
  [block_id |-> Get(d, "block_id", NoneT), block_type |-> "text",
   text_content |-> Get(d, "text_content", << >>),
   font_size |-> Get(d, "font_size", 12),
   alignment |-> Get(d, "alignment", "left"),
   created_date |-> Get(d, "created_date", now)]

\* ImageBlock.__init__, AudioBlock.__init__, VideoBlock.__init__
NewImageBlock(id, now) ==
  [block_id |-> id, block_type |-> "image", image_path |-> << >>,
   original_filename |-> << >>, width |-> 0, height |-> 0, created_date |-> now]
NewAudioBlock(id, now) ==
  [block_id |-> id, block_type |-> "audio", audio_path |-> << >>,
   original_filename |-> << >>, duration |-> 0, created_date |-> now]
NewVideoBlock(id, now) ==
  [block_id |-> id, block_type |-> "video", video_path |-> << >>,
   original_filename |-> << >>, duration |-> 0, thumbnail_path |-> << >>,
   created_date |-> now]

\* create_block_from_type, for the block types of the dropdown
create_block_from_type(block_type, id, now) ==
  IF block_type = "image" THEN NewImageBlock(id, now)
  ELSE IF block_type = "audio" THEN NewAudioBlock(id, now)
  ELSE IF block_type = "video" THEN NewVideoBlock(id, now)
  ELSE NewTextBlock(id, now, << >>)

\* ImageBlock.to_dict, AudioBlock.to_dict, VideoBlock.to_dict
ImageBlockToDict(b) ==
  [block_id |-> b.block_id, block_type |-> b.block_type, image_path |-> b.image_path,
   original_filename |-> b.original_filename, width |-> b.width, height |-> b.height,
   created_date |-> b.created_date]
AudioBlockToDict(b) ==
  [block_id |-> b.block_id, block_type |-> b.block_type, audio_path |-> b.audio_path,
   original_filename |-> b.original_filename, duration |-> b.duration,
   created_date |-> b.created_date]
VideoBlockToDict(b) ==
  [block_id |-> b.block_id, block_type |-> b.block_type, video_path |-> b.video_path,
   original_filename |-> b.original_filename, duration |-> b.duration,
   thumbnail_path |-> b.thumbnail_path, created_date |-> b.created_date]
\* block.to_dict() by the class of the block
BlockToDict(b) ==
  IF b.block_type = "image" THEN ImageBlockToDict(b)
  ELSE IF b.block_type = "audio" THEN AudioBlockToDict(b)
  ELSE IF b.block_type = "video" THEN VideoBlockToDict(b)
  ELSE TextBlockToDict(b)

\* ImageBlock.from_dict, AudioBlock.from_dict, VideoBlock.from_dict
ImageBlockFromDict(d, now) ==
  [block_id |-> Get(d, "block_id", NoneT), block_type |-> "image",
   image_path |-> Get(d, "image_path", << >>),
   original_filename |-> Get(d, "original_filename", << >>),
   width |-> Get(d, "width", 0), height |-> Get(d, "height", 0),
   created_date |-> Get(d, "created_date", now)]
AudioBlockFromDict(d, now) ==
  [block_id |-> Get(d, "block_id", NoneT), block_type |-> "audio",
   audio_path |-> Get(d, "audio_path", << >>),
   original_filename |-> Get(d, "original_filename", << >>),
   duration |-> Get(d, "duration", 0),
   created_date |-> Get(d, "created_date", now)]
VideoBlockFromDict(d, now) ==
  [block_id |-> Get(d, "block_id", NoneT), block_type |-> "video",
   video_path |-> Get(d, "video_path", << >>),
   original_filename |-> Get(d, "original_filename", << >>),
   duration |-> Get(d, "duration", 0),
   thumbnail_path |-> Get(d, "thumbnail_path", << >>),
   created_date |-> Get(d, "created_date", now)]
\* create_block_from_dict, for the block types that to_dict writes
create_block_from_dict(d, now) ==
  IF d.block_type = "image" THEN ImageBlockFromDict(d, now)
  ELSE IF d.block_type = "audio" THEN AudioBlockFromDict(d, now)
  ELSE IF d.block_type = "video" THEN VideoBlockFromDict(d, now)
  ELSE TextBlockFromDict(d, now)

\* FlashCard.to_dict
CardToDict(c) ==
  [card_id |-> c.card_id,
   information_side |-> [i \in 1..Len(c.information_side) |->
                           BlockToDict(c.information_side[i])],
   answer_side |-> [i \in 1..Len(c.answer_side) |-> BlockToDict(c.answer_side[i])],
   status |-> c.status, created_date |-> c.created_date,
   last_studied |-> c.last_studied]

\* FlashCard.from_dict
CardFromDict(d, now) ==
  [card_id |-> Get(d, "card_id", NoneT),
   information_side |-> [i \in 1..Len(Get(d, "information_side", << >>)) |->
                           create_block_from_dict(d.information_side[i], now)],
   answer_side |-> [i \in 1..Len(Get(d, "answer_side", << >>)) |->
                      create_block_from_dict(d.answer_side[i], now)],
   status |-> Get(d, "status", "Unknown"),
   created_date |-> Get(d, "created_date", now),
   last_studied |-> Get(d, "last_studied", NoneT)]

\* FlashCardSet.to_dict: the content of set.json
to_dict(fs) ==
  [name |-> fs.name, description |-> fs.description, icon_set |-> fs.icon_set,
   tags |-> fs.tags, difficulty_level |-> fs.difficulty_level,
   created_date |-> fs.created_date, last_accessed |-> fs.last_accessed,
   card_count |-> Len(fs.cards)]

\* FlashCardSet.cards_to_dict: the content of cards.json
cards_to_dict(fs) == [cards |-> [i \in 1..Len(fs.cards) |-> CardToDict(fs.cards[i])]]

\* FlashCardSet.from_dict; cards_data is <<>> when cards.json is missing
from_dict(set_data, cards_data, oid, now) ==
  [oid |-> oid,
   name |-> set_data.name,
   description |-> Get(set_data, "description", << >>),
   icon_set |-> Get(set_data, "icon_set", DefaultIcon),
   tags |-> Get(set_data, "tags", << >>),
   difficulty_level |-> Get(set_data, "difficulty_level", 1),
   created_date |-> Get(set_data, "created_date", now),
   last_accessed |-> Get(set_data, "last_accessed", NoneT),
   cards |-> IF IsPresent(cards_data)
             THEN [i \in 1..Len(Get(Content(cards_data), "cards", << >>)) |->
                     CardFromDict(Content(cards_data).cards[i], now)]
             ELSE << >>]

\* FlashCardSet.update_last_accessed
update_last_accessed(fs, now) == [fs EXCEPT !.last_accessed = now]

\* ------------------------------------------------ vault/vault_manager.py
\* VaultManager.get_available_sets: the directories that hold a set.json
get_available_sets == {n \in DOMAIN sets : IsPresent(sets[n].json)}
\* iterdir() of a sets/ that is not there raises, and the except clause turns
\* that into IOError("Error reading vault: ...")
ErrorReadingVault == "Error reading vault"
ListedSets == IF sets_dir THEN << "ok", get_available_sets >> ELSE << "IOError", {} >>

\* a validate_set_name that looks for illegal characters before the length
validate_set_name_CharsFirst(name) ==
  IF name = << >> \/ Len(Strip(name)) = 0
    THEN << FALSE, "Set name cannot be empty" >>
  ELSE IF \E i \in 1..Len(name) : name[i] \in InvalidChars
    THEN << FALSE, "Set name contains invalid characters" >>
  ELSE IF Len(name) > MaxSetNameLen
    THEN << FALSE, "Set name cannot exceed 128 characters" >>
  ELSE IF ~sets_dir
    THEN << FALSE, ErrorReadingVault >>
  ELSE IF name \in get_available_sets
    THEN << FALSE, "Set name already exists" >>
  ELSE << TRUE, "" >>

\* a validate_set_name that does not look at the listed sets
validate_set_name_NoDuplicates(name) ==
  IF name = << >> \/ Len(Strip(name)) = 0
    THEN << FALSE, "Set name cannot be empty" >>
  ELSE IF Len(name) > MaxSetNameLen
    THEN << FALSE, "Set name cannot exceed 128 characters" >>
  ELSE IF \E i \in 1..Len(name) : name[i] \in InvalidChars
    THEN << FALSE, "Set name contains invalid characters" >>
  ELSE << TRUE, "" >>

\* a validate_set_name that does not look for illegal characters
validate_set_name_NoChars(name) ==
  IF name = << >> \/ Len(Strip(name)) = 0
    THEN << FALSE, "Set name cannot be empty" >>
  ELSE IF Len(name) > MaxSetNameLen
    THEN << FALSE, "Set name cannot exceed 128 characters" >>
  ELSE IF ~sets_dir
    THEN << FALSE, ErrorReadingVault >>
  ELSE IF name \in get_available_sets
    THEN << FALSE, "Set name already exists" >>
  ELSE << TRUE, "" >>

\* VaultManager.validate_set_name: <<ok, reason>>; the reason ErrorReadingVault
\* stands for the IOError of get_available_sets leaving the method
validate_set_name(name) ==
  IF name = << >> \/ Len(Strip(name)) = 0
    THEN << FALSE, "Set name cannot be empty" >>
  ELSE IF Len(name) > MaxSetNameLen
    THEN << FALSE, "Set name cannot exceed 128 characters" >>
  ELSE IF \E i \in 1..Len(name) : name[i] \in InvalidChars
    THEN << FALSE, "Set name contains invalid characters" >>
  ELSE IF ~sets_dir
    THEN << FALSE, ErrorReadingVault >>
  ELSE IF name \in get_available_sets
    THEN << FALSE, "Set name already exists" >>
  ELSE << TRUE, "" >>

\* a directory created by mkdir(exist_ok=True): kept when it is there
MkDir(d) == IF IsPresent(d) THEN d ELSE Some(EmptyDir)

NoSetDir == [json |-> Absent, cards |-> Absent, images |-> Absent,
             sounds |-> Absent, icons |-> << >>]

\* the files save_set writes into sets/<fs.name>/ (lines 179-195)
SavedDir(fs) ==
  LET old == IF fs.name \in DOMAIN sets THEN sets[fs.name] ELSE NoSetDir
  IN  [old EXCEPT !.json = Some(to_dict(fs)),
                  !.cards = Some(cards_to_dict(fs)),
                  !.images = MkDir(old.images),
                  !.sounds = MkDir(old.sounds)]

\* object ids and uuid4 values: fresh, i.e. not in use anywhere
UsedOids == {cache[k].oid : k \in DOMAIN cache}
FreshOid == CHOOSE i \in 1..(Cardinality(UsedOids) + 1) : i \notin UsedOids

\* the same Python object can sit in the cache under two keys: a change made
\* through one reference is seen through the other
\* dict.update: the entries of u replace or extend those of d
DictUpdate(d, u) == [k \in (DOMAIN d) \cup (DOMAIN u) |-> IF k \in DOMAIN u THEN u[k] ELSE d[k]]

\* attribute assignments (the record attrs) on the object oid
MutateObj(c, oid, attrs) ==
  [k \in DOMAIN c |-> IF c[k].oid = oid THEN DictUpdate(c[k], attrs) ELSE c[k]]

\* a call can start: no import_vault is in its loop, and the budget is not used up
Idle == iv.pc = "idle" /\ hist[1].n < budget
\* the record of a call: the set name, the new name, the result or the
\* exception, further arguments (how), and the FlashCardSet passed or returned
NoObj == [oid |-> 0]
CalledWith(op, name, to, result, how, obj) ==
  [op |-> op, name |-> name, to |-> to, result |-> result, how |-> how, obj |-> obj,
   n |-> hist[1].n + 1]
Called(op, name, to, result) == CalledWith(op, name, to, result, << >>, NoObj)
\* a further step of the call in progress
Continued(op, name, to, result) ==
  [op |-> op, name |-> name, to |-> to, result |-> result, how |-> << >>, obj |-> NoObj,
   n |-> hist[1].n]
Record(call) == << call >> \o SubSeq(hist, 1, IF Len(hist) < 2 THEN Len(hist) ELSE 2)
last == hist[1]

\* ---------------------------------------------------------------- actions
\* validate_set_name called on its own
ValidateSetName(name) ==
  /\ Idle
  /\ LET r == validate_set_name(name)
     IN  hist' = Record(CalledWith("validate_set_name", name, << >>,
                                   IF r[2] = ErrorReadingVault THEN "IOError" ELSE "ok",
                                   << r[2] >>, [oid |-> 0, ok |-> r[1]]))
  /\ UNCHANGED << sets, cache, icons, available, archive, iv, clock, idgen, pyqt, budget,
                  backups, sets_dir >>

\* VaultManager.save_set(cache[k]): an object the caller got from the vault
SaveSet(k) ==
  /\ Idle
  /\ k \in DOMAIN cache
  /\ LET fs == cache[k]
     IN  /\ sets' = Put(sets, fs.name, SavedDir(fs))
         /\ cache' = Put(cache, fs.name, fs)
         /\ hist' = Record(CalledWith("save_set", fs.name, << >>, "ok", << >>, fs))
  /\ sets_dir' = TRUE
  /\ UNCHANGED << icons, available, archive, iv, clock, idgen, pyqt, budget, backups >>

\* VaultManager.create_set
CreateSet(name, m) ==
  /\ Idle
  /\ IF ~validate_set_name(name)[1]
     THEN /\ hist' = Record(Called("create_set", name, << >>,
                                   IF validate_set_name(name)[2] = ErrorReadingVault
                                   THEN "IOError" ELSE "ValueError"))
          /\ UNCHANGED << sets, cache, idgen, sets_dir >>
     ELSE /\ LET fs == [oid |-> FreshOid, name |-> name,
                        description |-> m.description, icon_set |-> m.icon_set,
                        tags |-> m.tags, difficulty_level |-> m.difficulty,
                        created_date |-> clock, last_accessed |-> NoneT,
                        cards |-> << NewFlashCard(idgen + 1, clock) >>]
             IN  /\ sets' = Put(sets, name, SavedDir(fs))
                 /\ cache' = Put(cache, name, fs)
                 /\ hist' = Record(CalledWith("create_set", name, << >>, "ok", << >>, fs))
          /\ idgen' = idgen + 1
          /\ sets_dir' = TRUE
  /\ UNCHANGED << icons, available, archive, iv, clock, pyqt, budget, backups >>

\* a file that json.load cannot parse
Unparsable == [unparsable |-> TRUE]
Parses(content) == "unparsable" \notin DOMAIN content

\* create_block_from_dict raises ValueError for a block of this card whose
\* block_type is none of the four
BlockTypeKnown(block_data) ==
  Get(block_data, "block_type", "") \in {"text", "image", "audio", "video"}
CardLoads(card_data) ==
  /\ \A i \in 1..Len(Get(card_data, "information_side", << >>)) :
       BlockTypeKnown(card_data.information_side[i])
  /\ \A i \in 1..Len(Get(card_data, "answer_side", << >>)) :
       BlockTypeKnown(card_data.answer_side[i])

\* how the try block of load_set ends for the set directory d, whose set.json
\* exists: json.JSONDecodeError becomes ValueError, every other exception
\* (the KeyError of set_data["name"], the ValueError of an unknown block
\* type) becomes IOError
LoadOutcome(d) ==
  IF ~Parses(Content(d.json)) THEN "ValueError"
  ELSE IF IsPresent(d.cards) /\ ~Parses(Content(d.cards)) THEN "ValueError"
  ELSE IF "name" \notin DOMAIN Content(d.json) THEN "IOError"
  ELSE IF /\ IsPresent(d.cards)
          /\ \E i \in 1..Len(Get(Content(d.cards), "cards", << >>)) :
               ~CardLoads(Content(d.cards).cards[i])
    THEN "IOError"
  ELSE "ok"

\* a load_set that puts an empty FlashCardSet into the cache before it reads
\* the files
Loaded_CachesFirst(c, set_name, d, oid, now) ==
  IF LoadOutcome(d) = "ok"
  THEN Put(c, set_name,
           update_last_accessed(from_dict(Content(d.json), d.cards, oid, now), now))
  ELSE Put(c, set_name,
           [oid |-> oid, name |-> set_name, description |-> << >>,
            icon_set |-> DefaultIcon, tags |-> << >>, difficulty_level |-> 1,
            created_date |-> now, last_accessed |-> NoneT, cards |-> << >>])

\* the cache after the try block of load_set (lines 149-167): the set is
\* cached by the last statement before the return
Loaded(c, set_name, d, oid, now) ==
  IF LoadOutcome(d) = "ok"
  THEN Put(c, set_name,
           update_last_accessed(from_dict(Content(d.json), d.cards, oid, now), now))
  ELSE c

\* VaultManager.load_set; the set returned is cache'[name]
LoadSet(name) ==
  /\ Idle
  /\ IF name \in DOMAIN cache
     THEN /\ hist' = Record(CalledWith("load_set", name, << >>, "ok", << "cache" >>, NoObj))
          /\ UNCHANGED cache
     ELSE IF name \notin DOMAIN sets \/ ~IsPresent(sets[name].json)
     THEN /\ hist' = Record(CalledWith("load_set", name, << >>, "FileNotFoundError", << "disk" >>, NoObj))
          /\ UNCHANGED cache
     ELSE /\ cache' = Loaded(cache, name, sets[name], FreshOid, clock)
          /\ hist' = Record(CalledWith("load_set", name, << >>, LoadOutcome(sets[name]),
                                       << "disk" >>, NoObj))
  /\ UNCHANGED << sets, icons, available, archive, iv, clock, idgen, pyqt, budget, backups, sets_dir >>

\* load_set when open() or read() of set.json or cards.json fails: the
\* exception leaves as IOError
LoadSetReadError(name) ==
  /\ Idle
  /\ name \notin DOMAIN cache
  /\ name \in DOMAIN sets /\ IsPresent(sets[name].json)
  /\ hist' = Record(CalledWith("load_set", name, << >>, "IOError", << "disk", "read error" >>, NoObj))
  /\ UNCHANGED cache
  /\ UNCHANGED << sets, icons, available, archive, iv, clock, idgen, pyqt, budget, backups, sets_dir >>

\* a delete_set that leaves the cache alone
Evict_Nothing(c, set_name) == c

\* delete_set, lines 233-234: the cache entry of the set is removed
Evict(c, set_name) == Drop(c, set_name)

\* VaultManager.delete_set
DeleteSet(name) ==
  /\ Idle
  /\ IF name \notin DOMAIN sets
     THEN /\ hist' = Record(Called("delete_set", name, << >>, "FileNotFoundError"))
          /\ UNCHANGED << sets, cache >>
     ELSE /\ sets' = Drop(sets, name)
          /\ cache' = Evict(cache, name)
          /\ hist' = Record(Called("delete_set", name, << >>, "ok"))
  /\ UNCHANGED << icons, available, archive, iv, clock, idgen, pyqt, budget, backups, sets_dir >>

\* VaultManager.update_set_metadata
UpdateSetMetadata(name, updated_data) ==
  /\ Idle
  /\ IF name \notin DOMAIN sets \/ ~IsPresent(sets[name].json)
     THEN /\ hist' = Record(Called("update_set_metadata", name, updated_data.name, "FileNotFoundError"))
          /\ UNCHANGED << sets, cache >>
     ELSE /\ LET current_data == Content(sets[name].json)
                 patched == DictUpdate(current_data,
                              [name |-> updated_data.name,
                               description |-> updated_data.description,
                               icon_set |-> updated_data.icon_set,
                               tags |-> updated_data.tags,
                               difficulty_level |-> updated_data.difficulty,
                               last_modified |-> clock])
             IN  sets' = [sets EXCEPT ![name].json = Some(patched)]
          /\ cache' = IF name \in DOMAIN cache
                      THEN MutateObj(cache, cache[name].oid,
                             [name |-> updated_data.name,
                              description |-> updated_data.description,
                              icon_set |-> updated_data.icon_set,
                              tags |-> updated_data.tags,
                              difficulty_level |-> updated_data.difficulty])
                      ELSE cache
          /\ hist' = Record(Called("update_set_metadata", name, updated_data.name, "ok"))
  /\ UNCHANGED << icons, available, archive, iv, clock, idgen, pyqt, budget, backups, sets_dir >>

\* VaultManager.rename_set
RenameSet(old_name, new_name) ==
  /\ Idle
  /\ IF old_name = new_name
     THEN /\ hist' = Record(Called("rename_set", old_name, new_name, "ok"))
          /\ UNCHANGED << sets, cache >>
     ELSE IF ~validate_set_name(new_name)[1]
     THEN /\ hist' = Record(Called("rename_set", old_name, new_name,
                                   IF validate_set_name(new_name)[2] = ErrorReadingVault
                                   THEN "IOError" ELSE "ValueError"))
          /\ UNCHANGED << sets, cache >>
     ELSE IF old_name \notin DOMAIN sets
     THEN /\ hist' = Record(Called("rename_set", old_name, new_name, "FileNotFoundError"))
          /\ UNCHANGED << sets, cache >>
     ELSE IF new_name \in DOMAIN sets
     THEN /\ hist' = Record(Called("rename_set", old_name, new_name, "ValueError"))
          /\ UNCHANGED << sets, cache >>
     ELSE /\ sets' = Put(Drop(sets, old_name), new_name, sets[old_name])
          /\ cache' = IF old_name \in DOMAIN cache
                      THEN MutateObj(Put(Drop(cache, old_name), new_name, cache[old_name]),
                                     cache[old_name].oid,
                                     [name |-> new_name])
                      ELSE cache
          /\ hist' = Record(Called("rename_set", old_name, new_name, "ok"))
  /\ UNCHANGED << icons, available, archive, iv, clock, idgen, pyqt, budget, backups, sets_dir >>

\* EditMode.on_new_card_clicked: create_empty_card on the set being edited
AddCard(k) ==
  /\ Idle
  /\ k \in DOMAIN cache
  /\ cache' = MutateObj(cache, cache[k].oid,
                [cards |-> Append(cache[k].cards, NewFlashCard(idgen + 1, clock))])
  /\ idgen' = idgen + 1
  /\ hist' = Record(Called("create_empty_card", k, << >>, "ok"))
  /\ UNCHANGED << sets, icons, available, archive, iv, clock, pyqt, budget, backups, sets_dir >>

\* EditMode.on_ai_new_card_clicked with an accepted dialog: a new card, a text
\* block on each side that has a text, then auto_save -> save_set(current_set)
AiNewCard(k, card_data) ==
  /\ Idle
  /\ k \in DOMAIN cache
  /\ LET new_card ==
           [NewFlashCard(idgen + 1, clock) EXCEPT
              !.information_side =
                 IF card_data.information # << >>
                 THEN << NewTextBlock(idgen + 2, clock, card_data.information) >> ELSE << >>,
              !.answer_side =
                 IF card_data.answer # << >>
                 THEN << NewTextBlock(idgen + 3, clock, card_data.answer) >> ELSE << >>]
         edited == MutateObj(cache, cache[k].oid,
                             [cards |-> Append(cache[k].cards, new_card)])
         fs == edited[k]
     IN  /\ sets' = Put(sets, fs.name, SavedDir(fs))
         /\ cache' = Put(edited, fs.name, fs)
         /\ hist' = Record(CalledWith("save_set", fs.name, << >>, "ok", << >>, fs))
  /\ idgen' = idgen + 3
  /\ UNCHANGED << icons, available, archive, iv, clock, pyqt, budget, backups, sets_dir >>

\* the attribute that holds the blocks of a side, for the side names of
\* FlashCard ("information", "answer")
SideNames == {"information", "answer"}
SideAttr(side) == IF side = "information" THEN "information_side" ELSE "answer_side"

\* an add_block_to_side that lets an eleventh block in
SideFull_OffByOne(blocks) == Len(blocks) > 10

\* add_block_to_side, lines 25 and 29: the side holds 10 blocks or more
SideFull(blocks) == Len(blocks) >= 10

\* list.pop(i) and list.insert(i, x) with 0-based indices inside the list
ListPop(l, i) == SubSeq(l, 1, i) \o SubSeq(l, i + 2, Len(l))
ListInsert(l, i, x) == SubSeq(l, 1, i) \o << x >> \o SubSeq(l, i + 1, Len(l))

\* FlashCard.add_block_to_side on card ci of the set cached under k
AddBlockToSide(k, ci, side, block) ==
  /\ Idle
  /\ k \in DOMAIN cache
  /\ ci \in 1..Len(cache[k].cards)
  /\ IF side \notin SideNames \/ SideFull(cache[k].cards[ci][SideAttr(side)])
     THEN /\ hist' = Record(CalledWith("add_block_to_side", k, << >>, "ValueError",
                                       << side >>, NoObj))
          /\ UNCHANGED cache
     ELSE /\ cache' = MutateObj(cache, cache[k].oid,
                         [cards |-> [cache[k].cards EXCEPT ![ci][SideAttr(side)] =
                                       Append(@, block)]])
          /\ hist' = Record(CalledWith("add_block_to_side", k, << >>, "ok", << side >>, NoObj))
  /\ UNCHANGED << sets, icons, available, archive, iv, clock, idgen, pyqt, budget, backups, sets_dir >>

\* FlashCard.remove_block_from_side; block_index counts from 0
RemoveBlockFromSide(k, ci, side, block_index) ==
  /\ Idle
  /\ k \in DOMAIN cache
  /\ ci \in 1..Len(cache[k].cards)
  /\ IF side \notin SideNames
     THEN /\ hist' = Record(CalledWith("remove_block_from_side", k, << >>, "ValueError",
                                       << side >>, NoObj))
          /\ UNCHANGED cache
     ELSE IF ~(0 <= block_index /\ block_index < Len(cache[k].cards[ci][SideAttr(side)]))
     THEN /\ hist' = Record(CalledWith("remove_block_from_side", k, << >>, "IndexError",
                                       << side >>, NoObj))
          /\ UNCHANGED cache
     ELSE /\ cache' = MutateObj(cache, cache[k].oid,
                         [cards |-> [cache[k].cards EXCEPT ![ci][SideAttr(side)] =
                                       ListPop(@, block_index)]])
          /\ hist' = Record(CalledWith("remove_block_from_side", k, << >>, "ok",
                                       << side >>, NoObj))
  /\ UNCHANGED << sets, icons, available, archive, iv, clock, idgen, pyqt, budget, backups, sets_dir >>

\* FlashCard.move_block; the indices count from 0
MoveBlock(k, ci, side, from_index, to_index) ==
  /\ Idle
  /\ k \in DOMAIN cache
  /\ ci \in 1..Len(cache[k].cards)
  /\ IF side \notin SideNames
     THEN /\ hist' = Record(CalledWith("move_block", k, << >>, "ValueError", << side >>, NoObj))
          /\ UNCHANGED cache
     ELSE LET blocks == cache[k].cards[ci][SideAttr(side)]
          IN  IF ~(/\ 0 <= from_index /\ from_index < Len(blocks)
                   /\ 0 <= to_index /\ to_index < Len(blocks))
              THEN /\ hist' = Record(CalledWith("move_block", k, << >>, "IndexError",
                                                << side >>, NoObj))
                   /\ UNCHANGED cache
              ELSE /\ cache' = MutateObj(cache, cache[k].oid,
                                  [cards |-> [cache[k].cards EXCEPT ![ci][SideAttr(side)] =
                                     ListInsert(ListPop(blocks, from_index), to_index,
                                                blocks[from_index + 1])]])
                   /\ hist' = Record(CalledWith("move_block", k, << >>, "ok", << side >>, NoObj))
  /\ UNCHANGED << sets, icons, available, archive, iv, clock, idgen, pyqt, budget, backups, sets_dir >>

\* FlashCardSet.update_metadata(difficulty=difficulty) on a set the caller
\* got from the vault; the other arguments are left at None
UpdateMetadata(k, difficulty) ==
  /\ Idle
  /\ k \in DOMAIN cache
  /\ IF 1 <= difficulty /\ difficulty <= 5
     THEN /\ cache' = MutateObj(cache, cache[k].oid, [difficulty_level |-> difficulty])
          /\ hist' = Record(CalledWith("update_metadata", k, << >>, "ok", << >>, cache'[k]))
     ELSE /\ UNCHANGED cache
          /\ hist' = Record(CalledWith("update_metadata", k, << >>, "ValueError", << >>, cache[k]))
  /\ UNCHANGED << sets, icons, available, archive, iv, clock, idgen, pyqt, budget, backups, sets_dir >>

\* time passes between two calls
Tick ==
  /\ Idle
  /\ clock' = clock + 1
  /\ hist' = Record(Called("tick", << >>, << >>, "ok"))
  /\ UNCHANGED << sets, cache, icons, available, archive, iv, idgen, pyqt, budget, backups, sets_dir >>

\* ------------------------------------------------- vault/icon_manager.py
\* IconManager.validate_icon_set, on the icon directories `ic`
validate_icon_set(ic, name) ==
  /\ name \in DOMAIN ic
  /\ \A size \in icon_sizes : size \in DOMAIN ic[name]

\* IconManager.install_default_icon_collection: the missing sizes of
\* icons/default/ are drawn, the files that are there are kept
install_default_icon_collection(ic) ==
  LET old == IF DefaultIcon \in DOMAIN ic THEN ic[DefaultIcon] ELSE EmptyDir
  IN  Put(ic, DefaultIcon,
          [size \in icon_sizes |-> IF size \in DOMAIN old THEN old[size] ELSE GeneratedIcon])

\* IconManager.refresh_available_icons: <<icon directories, available_icon_sets>>
refresh_available_icons(ic) ==
  LET valid == {n \in DOMAIN ic : validate_icon_set(ic, n)}
  IN  IF DefaultIcon \notin valid
      THEN << install_default_icon_collection(ic), valid \cup {DefaultIcon} >>
      ELSE << ic, valid >>

\* a resize_and_save_icon that writes the largest size only
resize_and_save_icon_LargestOnly(ic, icon_set_name, image) ==
  Put(ic, icon_set_name,
      [size \in (DOMAIN ic[icon_set_name]) \cup {256} |->
         IF size = 256 THEN image ELSE ic[icon_set_name][size]])

\* IconManager.resize_and_save_icon on an image that Image.open can read: the
\* five sizes are written into the directory, over the files of those names
resize_and_save_icon(ic, icon_set_name, image) ==
  Put(ic, icon_set_name,
      [size \in (DOMAIN ic[icon_set_name]) \cup icon_sizes |->
         IF size \in icon_sizes THEN image ELSE ic[icon_set_name][size]])

\* IconManager.install_custom_icon with an image whose extension is supported
InstallCustomIcon(image, icon_set_name) ==
  /\ Idle
  /\ LET made == IF icon_set_name \in DOMAIN icons THEN icons
                 ELSE Put(icons, icon_set_name, EmptyDir)
     IN  IF image = "corrupt"
         THEN \* Image.open fails in resize_and_save_icon, after the mkdir
              /\ icons' = made
              /\ UNCHANGED available
              /\ hist' = Record(CalledWith("install_custom_icon", << >>, << >>, "ValueError",
                                         << icon_set_name, image >>, NoObj))
         ELSE LET r == refresh_available_icons(resize_and_save_icon(made, icon_set_name, image))
              IN  /\ icons' = r[1]
                  /\ available' = r[2]
                  /\ hist' = Record(CalledWith("install_custom_icon", << >>, << >>, "ok",
                                         << icon_set_name, image >>, NoObj))
  /\ UNCHANGED << sets, cache, archive, iv, clock, idgen, pyqt, budget, backups, sets_dir >>

\* the files _create_educational_icon draws
EducationalIcon == "educational"
\* color schemes: one that _create_educational_icon can draw with, and one it
\* raises on (not a dict, or a colour that is not an RGB triple)
ColorSchemes == {"rgb", "unusable"}

\* IconManager.create_educational_icon_set
CreateEducationalIconSet(name, color_scheme) ==
  /\ Idle
  /\ LET made == IF name \in DOMAIN icons THEN icons ELSE Put(icons, name, EmptyDir)
     IN  IF color_scheme = "unusable"
         THEN \* the except branch: the directory is removed, the list is not refreshed
              /\ icons' = Drop(made, name)
              /\ UNCHANGED available
              /\ hist' = Record(CalledWith("create_educational_icon_set", << >>, << >>,
                                         "ValueError", << name, color_scheme >>, NoObj))
         ELSE LET r == refresh_available_icons(resize_and_save_icon(made, name, EducationalIcon))
              IN  /\ icons' = r[1]
                  /\ available' = r[2]
                  /\ hist' = Record(CalledWith("create_educational_icon_set", << >>, << >>,
                                             "ok", << name, color_scheme >>, NoObj))
  /\ UNCHANGED << sets, cache, archive, iv, clock, idgen, pyqt, budget, backups, sets_dir >>

\* a delete_icon_set that takes any name
Deletable_Any(icon_set_name) == TRUE

\* delete_icon_set, lines 273-274: the default icon set is refused
Deletable(icon_set_name) == icon_set_name # "default"

\* IconManager.delete_icon_set
DeleteIconSet(icon_set_name) ==
  /\ Idle
  /\ IF ~Deletable(icon_set_name)
     THEN /\ hist' = Record(CalledWith("delete_icon_set", << >>, << >>, "ValueError", << icon_set_name >>, NoObj))
          /\ UNCHANGED << icons, available >>
     ELSE IF icon_set_name \in DOMAIN icons
     THEN /\ LET r == refresh_available_icons(Drop(icons, icon_set_name))
             IN  icons' = r[1] /\ available' = r[2]
          /\ hist' = Record(CalledWith("delete_icon_set", << >>, << >>, "ok", << icon_set_name >>, NoObj))
     ELSE /\ hist' = Record(CalledWith("delete_icon_set", << >>, << >>, "FileNotFoundError", << icon_set_name >>, NoObj))
          /\ UNCHANGED << icons, available >>
  /\ UNCHANGED << sets, cache, archive, iv, clock, idgen, pyqt, budget, backups, sets_dir >>

\* ---------------------------------------------------------- ZIP archives
\* a ZIP file holds files only: the files of a directory that may be missing
FilesOf(d) == IF IsPresent(d) THEN Content(d) ELSE EmptyDir
\* extraction creates a directory only for the files in it
DirOf(files) == IF files = EmptyDir THEN Absent ELSE Some(files)
NonEmptyDirs(tree) == [n \in {x \in DOMAIN tree : tree[x] # EmptyDir} |-> tree[n]]

\* what rglob('*') / is_file() / zipf.write put into an archive for one set
\* directory, and what extractall / copytree make of it again
ZipDir(d) ==
  [json |-> d.json, cards |-> d.cards,
   images |-> DirOf(FilesOf(d.images)), sounds |-> DirOf(FilesOf(d.sounds)),
   icons |-> NonEmptyDirs(d.icons)]
HasFiles(z) ==
  \/ IsPresent(z.json) \/ IsPresent(z.cards) \/ IsPresent(z.images)
  \/ IsPresent(z.sounds) \/ z.icons # << >>

\* two entries of one name in a ZIP file: extractall writes the later one last
ZipOverlay(first, later) ==
  [n \in (DOMAIN first) \cup (DOMAIN later) |->
     IF n \in DOMAIN first /\ n \in DOMAIN later THEN DictUpdate(first[n], later[n])
     ELSE IF n \in DOMAIN later THEN later[n] ELSE first[n]]

NoArchive == [kind |-> "none"]

\* an export_set that leaves the icon set out of the archive
BundledIcons_None(ic, z) == << >>

\* export_set, lines 327-346: the files of the icon set that set.json names,
\* under icons/<icon_set_name>/; nothing when set.json is missing or unparsable
BundledIcons(ic, z) ==
  IF IsPresent(z.json) /\ Parses(Content(z.json))
  THEN LET icon_set_name == Get(Content(z.json), "icon_set", DefaultIcon)
       IN  IF icon_set_name \in DOMAIN ic
           THEN NonEmptyDirs([n \in {icon_set_name} |-> ic[n]])
           ELSE << >>
  ELSE << >>

\* VaultManager.export_set; the record notes the icon set that set.json names
\* and whether it validates at the time of the export
ExportSet(set_name) ==
  /\ Idle
  /\ IF set_name \notin DOMAIN sets
     THEN /\ hist' = Record(Called("export_set", set_name, << >>, "FileNotFoundError"))
          /\ UNCHANGED archive
     ELSE /\ LET z == ZipDir(sets[set_name])
                 icon_set_name == IF IsPresent(z.json) /\ Parses(Content(z.json))
                                  THEN Get(Content(z.json), "icon_set", DefaultIcon)
                                  ELSE ""
             IN  /\ archive' = [kind |-> "set",
                                root |-> [z EXCEPT !.icons =
                                            ZipOverlay(z.icons, BundledIcons(icons, z))]]
                 /\ hist' = Record(CalledWith("export_set", set_name, << >>, "ok", << >>,
                                     [oid |-> 0, icon_set |-> icon_set_name,
                                      icon_valid |-> validate_icon_set(icons, icon_set_name)]))
  /\ UNCHANGED << sets, cache, icons, available, iv, clock, idgen, pyqt, budget, backups, sets_dir >>

\* the icon sets of an archive as import_set installs them (lines 403-424):
\* a local icon set that validates is kept
ImportSetIcons(ic, bundled) ==
  [n \in (DOMAIN ic) \cup (DOMAIN bundled) |->
     IF n \notin DOMAIN bundled THEN ic[n]
     ELSE IF n \in DOMAIN ic /\ validate_icon_set(ic, n) THEN ic[n]
     ELSE bundled[n]]

\* VaultManager.import_set; new_name = <<>> stands for None
ImportSet(new_name) ==
  /\ Idle
  /\ archive.kind = "set"
  /\ LET root == archive.root
         original_name == IF IsPresent(root.json)
                          THEN Get(Content(root.json), "name", << "?" >>)
                          ELSE << "?" >>
         import_name == IF new_name # << >> THEN new_name ELSE original_name
     IN  IF ~IsPresent(root.json) \/ import_name \in get_available_sets
         THEN \* the ValueError raised inside the try block leaves as IOError
              /\ hist' = Record(Called("import_set", import_name, new_name, "IOError"))
              /\ UNCHANGED << sets, icons, available >>
         ELSE /\ LET set_data == IF import_name # original_name
                                 THEN DictUpdate(Content(root.json), [name |-> import_name])
                                 ELSE Content(root.json)
                 IN  sets' = Put(sets, import_name, [root EXCEPT !.json = Some(set_data)])
              /\ IF root.icons # << >>
                 THEN LET r == refresh_available_icons(ImportSetIcons(icons, root.icons))
                      IN  icons' = r[1] /\ available' = r[2]
                 ELSE UNCHANGED << icons, available >>
              /\ hist' = Record(Called("import_set", import_name, new_name, "ok"))
  /\ UNCHANGED << cache, archive, iv, clock, idgen, pyqt, budget, backups, sets_dir >>

\* VaultManager.export_entire_vault
ExportVault ==
  /\ Idle
  /\ archive' = [kind |-> "vault",
                 sets |-> [n \in {x \in DOMAIN sets : HasFiles(ZipDir(sets[x]))} |->
                             ZipDir(sets[n])],
                 icons |-> NonEmptyDirs(icons)]
  /\ hist' = Record(Called("export_entire_vault", << >>, << >>, "ok"))
  /\ UNCHANGED << sets, cache, icons, available, iv, clock, idgen, pyqt, budget, backups, sets_dir >>

\* ------------------------------------------ import_vault, replace mode
\* shutil.move(vault, backup_path): a rename when backup_path is free; into
\* backup_path/vault when backup_path is a directory already (a second replace
\* within the same second); shutil.Error when that is taken as well
NoBackup == [top |-> Absent, inner |-> Absent]
BackupOf(t) == IF t \in DOMAIN backups THEN backups[t] ELSE NoBackup
MoveToBackup(b, vault) ==
  IF ~IsPresent(b.top) THEN [b EXCEPT !.top = Some(vault)]
  ELSE [b EXCEPT !.inner = Some(vault)]
\* the staged set directories copied into the new sets/ (lines 488-495)
ReplacedSets(staged) == [n \in DOMAIN staged |-> staged[n]]

\* VaultManager.import_vault(archive, "replace")
ImportVaultReplace ==
  /\ Idle
  /\ archive.kind = "vault"
  /\ IF sets_dir /\ IsPresent(BackupOf(clock).inner)
     THEN /\ hist' = Record(CalledWith("import_vault", << >>, << >>, "IOError",
                                       << "replace" >>, NoObj))
          /\ UNCHANGED << sets, cache, icons, available, backups, sets_dir >>
     ELSE /\ backups' = IF sets_dir THEN Put(backups, clock, MoveToBackup(BackupOf(clock), sets))
                        ELSE backups
          /\ IF archive.sets # << >>
             THEN sets' = ReplacedSets(archive.sets) /\ sets_dir' = TRUE
             ELSE sets' = << >> /\ sets_dir' = FALSE
          /\ IF archive.icons # << >>
             THEN LET r == refresh_available_icons(archive.icons)
                  IN  icons' = r[1] /\ available' = r[2]
             ELSE UNCHANGED << icons, available >>
          /\ cache' = << >>
          /\ hist' = Record(CalledWith("import_vault", << >>, << >>, "ok",
                                       << "replace" >>, NoObj))
  /\ UNCHANGED << archive, iv, clock, idgen, pyqt, budget >>

\* ------------------------------------------- import_vault, merge mode
NoImport == [pc |-> "idle", todo |-> {}, existing_sets |-> {}, ignore_all |-> FALSE,
             imported |-> << >>, ignored |-> << >>, renamed |-> << >>, log |-> << >>]

\* the answers of SetConflictDialog: result_action and new_name.  A dialog that
\* is closed without a button leaves result_action None.
IMPORT == 1
IGNORE == 2
IGNORE_ALL == 3
NoAction == 0
NoAnswer == [result_action |-> NoAction, new_name |-> << >>]
ImportAsInputs == {NameB, NameA2, NameBad}
Answers(suggested_name) ==
  {[result_action |-> a, new_name |-> << >>] : a \in {IGNORE, IGNORE_ALL, NoAction}}
  \cup {[result_action |-> IMPORT, new_name |-> n] : n \in ImportAsInputs \cup {suggested_name}}

\* the first free name "<original_name> <counter>", counter = 2, 3, ... (lines 550-554
\* and 581-585)
RECURSIVE FirstFree(_, _, _)
FirstFree(original_name, counter, existing_sets) ==
  IF Suffixed(original_name, counter) \in existing_sets
  THEN FirstFree(original_name, counter + 1, existing_sets)
  ELSE Suffixed(original_name, counter)

\* merge mode, icons first (lines 508-521): every bundled icon set is copied
\* over the local one
MergeIcons(ic, bundled) ==
  [n \in (DOMAIN ic) \cup (DOMAIN bundled) |-> IF n \in DOMAIN bundled THEN bundled[n] ELSE ic[n]]

\* the staged directory as it is copied to sets/<import_name>/ (lines 590-607)
MergedDir(staged, original_name, import_name) ==
  IF import_name # original_name /\ IsPresent(staged.json)
  THEN [staged EXCEPT !.json = Some(DictUpdate(Content(staged.json),
                                      [name |-> import_name, last_modified |-> clock]))]
  ELSE staged

\* the `continue`s of the conflict branch (lines 541-577): the staged set is
\* reported as ignored and not copied
Skips(collides, ignore_all, asked, answer) ==
  \/ collides /\ ignore_all
  \/ asked /\ answer.result_action \in {IGNORE, IGNORE_ALL}
  \/ asked /\ answer.result_action = IMPORT /\ ~validate_set_name(answer.new_name)[1]

\* import_vault(archive, "merge") up to the loop over the staged sets
ImportVaultBegin ==
  /\ Idle
  /\ archive.kind = "vault"
  /\ IF archive.icons # << >>
     THEN LET r == refresh_available_icons(MergeIcons(icons, archive.icons))
          IN  icons' = r[1] /\ available' = r[2]
     ELSE UNCHANGED << icons, available >>
  /\ IF archive.sets # << >>
     THEN /\ iv' = [NoImport EXCEPT !.pc = "merge", !.todo = DOMAIN archive.sets,
                                    !.existing_sets = get_available_sets]
          /\ hist' = Record(Called("import_vault", << >>, << >>, "running"))
          /\ UNCHANGED cache
     ELSE \* no sets/ in the archive: the cache is cleared and None returned
          /\ iv' = NoImport
          /\ cache' = << >>
          /\ hist' = Record(Called("import_vault", << >>, << >>, "ok"))
  /\ UNCHANGED << sets, archive, clock, idgen, pyqt, budget, backups, sets_dir >>

\* one pass of the loop body for the staged directory original_name
ImportVaultStep(original_name, answer) ==
  /\ iv.pc = "merge"
  /\ original_name \in iv.todo
  /\ LET collides == original_name \in iv.existing_sets
         asked == collides /\ ~iv.ignore_all /\ pyqt
         suggested_name == FirstFree(original_name, 2, iv.existing_sets)
         skipped == Skips(collides, iv.ignore_all, asked, answer)
         import_name == IF asked /\ answer.result_action = IMPORT THEN answer.new_name
                        ELSE IF collides /\ ~pyqt THEN suggested_name
                        ELSE original_name
         renamed == (asked /\ answer.result_action = IMPORT) \/ (collides /\ ~pyqt)
         entry == [original_name |-> original_name, asked |-> asked, answer |-> answer,
                   skipped |-> skipped, import_name |-> import_name,
                   existing_sets |-> iv.existing_sets,
                   before |-> sets, failed |-> FALSE]
     IN  /\ IF asked THEN answer \in Answers(suggested_name) ELSE answer = NoAnswer
         /\ IF skipped
            THEN /\ iv' = [iv EXCEPT !.todo = @ \ {original_name},
                                     !.ignore_all = @ \/ (asked /\ answer.result_action = IGNORE_ALL),
                                     !.ignored = Append(@, original_name),
                                     !.log = Append(@, entry)]
                 /\ UNCHANGED sets
            ELSE /\ sets' = Put(sets, import_name,
                                MergedDir(archive.sets[original_name], original_name, import_name))
                 /\ iv' = [iv EXCEPT !.todo = @ \ {original_name},
                                     !.existing_sets = @ \cup {import_name},
                                     !.renamed = IF renamed
                                                 THEN Append(@, << original_name, import_name >>)
                                                 ELSE @,
                                     !.imported = Append(@, import_name),
                                     !.log = Append(@, entry)]
  /\ hist' = Record(Continued("import_vault", original_name, << >>, "running"))
  /\ UNCHANGED << cache, icons, available, archive, clock, idgen, pyqt, budget, backups, sets_dir >>

\* the except branch of the loop body (lines 612-615): the set is reported
\* as ignored and the loop goes on
CopyFailed(ivs, original_name) == [ivs EXCEPT !.ignored = Append(@, original_name)]

\* where the copy of a staged set can raise, and what is then on disk:
\* "rmtree" - removing the old destination fails, nothing has changed;
\* "copytree" - the destination was removed and the copy stopped before the
\*   first file; "rewrite" - the copy is complete and writing the new name into
\*   set.json raises
FailOutcomes == {"rmtree", "copytree", "rewrite"}
PartialDir == [json |-> Absent, cards |-> Absent, images |-> Absent,
               sounds |-> Absent, icons |-> << >>]

\* one pass of the loop body in which the copy raises
ImportVaultStepFails(original_name, answer, outcome) ==
  /\ iv.pc = "merge"
  /\ original_name \in iv.todo
  /\ LET collides == original_name \in iv.existing_sets
         asked == collides /\ ~iv.ignore_all /\ pyqt
         suggested_name == FirstFree(original_name, 2, iv.existing_sets)
         import_name == IF asked /\ answer.result_action = IMPORT THEN answer.new_name
                        ELSE IF collides /\ ~pyqt THEN suggested_name
                        ELSE original_name
         renamed == (asked /\ answer.result_action = IMPORT) \/ (collides /\ ~pyqt)
         entry == [original_name |-> original_name, asked |-> asked, answer |-> answer,
                   skipped |-> FALSE, import_name |-> import_name,
                   existing_sets |-> iv.existing_sets,
                   before |-> sets, failed |-> TRUE]
     IN  /\ IF asked THEN answer \in Answers(suggested_name) ELSE answer = NoAnswer
         /\ ~Skips(collides, iv.ignore_all, asked, answer)
         /\ outcome = "rmtree" => import_name \in DOMAIN sets
         /\ outcome = "rewrite" =>
              import_name # original_name /\ IsPresent(archive.sets[original_name].json)
         /\ sets' = IF outcome = "rmtree" THEN sets
                    ELSE IF outcome = "copytree" THEN Put(sets, import_name, PartialDir)
                    ELSE Put(sets, import_name, archive.sets[original_name])
         /\ iv' = CopyFailed([iv EXCEPT !.todo = @ \ {original_name},
                                        !.renamed = IF renamed
                                                    THEN Append(@, << original_name, import_name >>)
                                                    ELSE @,
                                        !.log = Append(@, entry)],
                             original_name)
  /\ hist' = Record(Continued("import_vault", original_name, << >>, "running"))
  /\ UNCHANGED << cache, icons, available, archive, clock, idgen, pyqt, budget, backups, sets_dir >>

\* import_vault(archive, "replace") in which shutil.copytree raises for the
\* staged set failing, after the staged sets in copied (lines 491-496): the
\* vault has been moved to the backup, the exception leaves as IOError
\* (line 626) and the cache is not cleared
ImportVaultReplaceFails(failing, copied) ==
  /\ Idle
  /\ archive.kind = "vault"
  /\ failing \in DOMAIN archive.sets
  /\ copied \subseteq (DOMAIN archive.sets) \ {failing}
  /\ ~(sets_dir /\ IsPresent(BackupOf(clock).inner))
  /\ backups' = IF sets_dir THEN Put(backups, clock, MoveToBackup(BackupOf(clock), sets))
                ELSE backups
  /\ sets' = [n \in copied \cup {failing} |->
                IF n = failing THEN PartialDir ELSE archive.sets[n]]
  /\ sets_dir' = TRUE
  /\ hist' = Record(CalledWith("import_vault", << >>, << >>, "IOError",
                               << "replace", "copytree" >>, NoObj))
  /\ UNCHANGED << cache, icons, available, archive, iv, clock, idgen, pyqt, budget >>

\* the loop is over: import_results is returned (line 618)
ImportVaultReturn ==
  /\ iv.pc = "merge"
  /\ iv.todo = {}
  /\ iv' = [iv EXCEPT !.pc = "idle"]
  /\ hist' = Record(Continued("import_vault", << >>, << >>, "ok"))
  /\ UNCHANGED << sets, cache, icons, available, archive, clock, idgen, pyqt, budget, backups, sets_dir >>

\* VaultManager.copy_media_file and FileManager.safe_filename
\* re.sub(r'[<>:"/\\|?*]', '_', filename) and strip(' .')
RECURSIVE StripDots(_)
StripDots(s) == IF s = << >> THEN s
                ELSE IF Head(s) \in {" ", "."} THEN StripDots(Tail(s))
                ELSE IF s[Len(s)] \in {" ", "."} THEN StripDots(SubSeq(s, 1, Len(s) - 1))
                ELSE s

\* the index of the last "." of a name, 0 when there is none
LastDot(s) == IF \E i \in 1..Len(s) : s[i] = "."
              THEN CHOOSE i \in 1..Len(s) : s[i] = "." /\ \A j \in (i + 1)..Len(s) : s[j] # "."
              ELSE 0
\* pathlib: Path(name).suffix and Path(name).stem
Suffix(s) == IF LastDot(s) > 1 /\ LastDot(s) < Len(s) THEN SubSeq(s, LastDot(s), Len(s)) ELSE << >>
Stem(s) == IF LastDot(s) > 1 /\ LastDot(s) < Len(s) THEN SubSeq(s, 1, LastDot(s) - 1) ELSE s

\* the Python slice s[:n]: the first n elements, all of s when n > len(s), and
\* all but the last -n elements when n is negative
SliceTo(s, n) ==
  IF n >= Len(s) THEN s
  ELSE IF n >= 0 THEN SubSeq(s, 1, n)
  ELSE IF Len(s) + n > 0 THEN SubSeq(s, 1, Len(s) + n)
  ELSE << >>

MaxFilenameLen == 255
safe_filename(filename) ==
  LET replaced == [i \in 1..Len(filename) |->
                     IF filename[i] \in InvalidChars THEN "_" ELSE filename[i]]
      stripped == StripDots(replaced)
      named == IF stripped = << >> THEN << "u", "n", "t", "i", "t", "l", "e", "d" >> ELSE stripped
  IN  IF Len(named) > MaxFilenameLen
      THEN SliceTo(Stem(named), MaxFilenameLen - Len(Suffix(named))) \o Suffix(named)
      ELSE named

\* FileManager.safe_filename called on its own
SafeFilename(filename) ==
  /\ Idle
  /\ hist' = Record(Called("safe_filename", filename, safe_filename(filename), "ok"))
  /\ UNCHANGED << sets, cache, icons, available, archive, iv, clock, idgen, pyqt, budget,
                  backups, sets_dir >>

\* the name the conflict loop of copy_media_file ends with (lines 756-761)
RECURSIVE FreeMediaName(_, _, _)
FreeMediaName(safe_name, counter, files) ==
  LET candidate == Stem(safe_name) \o << "_" >> \o Str(counter) \o Suffix(safe_name)
  IN  IF candidate \in DOMAIN files THEN FreeMediaName(safe_name, counter + 1, files)
      ELSE candidate

\* copy_media_file on the set directory `old`, for a source file that exists:
\* the name returned and the set directory afterwards
CopiedMedia(old, source, media_type) ==
  LET dest_dir == IF media_type = "image" THEN FilesOf(old.images) ELSE FilesOf(old.sounds)
      safe_name == safe_filename(source.name)
      dest_name == IF safe_name \in DOMAIN dest_dir
                   THEN FreeMediaName(safe_name, 1, dest_dir) ELSE safe_name
      written == Some(Put(dest_dir, dest_name, source.bytes))
  IN  [dest_name |-> dest_name,
       dir |-> IF media_type = "image" THEN [old EXCEPT !.images = written]
               ELSE [old EXCEPT !.sounds = written]]

CopyMediaFile(source, set_name, media_type) ==
  /\ Idle
  /\ LET old == IF set_name \in DOMAIN sets THEN sets[set_name] ELSE NoSetDir
         copied == CopiedMedia(old, source, media_type)
     IN  /\ sets' = Put(sets, set_name, copied.dir)
         /\ hist' = Record(CalledWith("copy_media_file", set_name, copied.dest_name, "ok",
                                      << media_type >>, [oid |-> 0, source |-> source]))
  /\ sets_dir' = TRUE
  /\ UNCHANGED << cache, icons, available, archive, iv, clock, idgen, pyqt, budget, backups >>

\* ------------------------------------------------ models/content_blocks.py
\* the attribute that holds the media reference of a block, and the folder
\* get_full_path looks into
PathAttr(block_type) ==
  IF block_type = "image" THEN "image_path"
  ELSE IF block_type = "audio" THEN "audio_path" ELSE "video_path"
MediaFolder(block_type) == IF block_type = "image" THEN "images" ELSE "sounds"
SetterOf(block_type) ==
  IF block_type = "image" THEN "set_image"
  ELSE IF block_type = "audio" THEN "set_audio" ELSE "set_video"
\* the file get_full_path(vault_path, set_name) of block b points to
get_full_path(b) == << MediaFolder(b.block_type), b[PathAttr(b.block_type)] >>

max_width == 3840
max_height == 2160
audio_extensions == { << ".", "w", "a", "v" >>, << ".", "m", "p", "3" >>,
                      << ".", "m", "4", "a" >>, << ".", "o", "g", "g" >> }
video_extensions == { << ".", "m", "p", "4" >>, << ".", "a", "v", "i" >>,
                      << ".", "m", "o", "v" >>, << ".", "m", "k", "v" >> }

\* BlockEditorWidget.on_create_block_clicked: a new block of the chosen type on
\* one side of a card of the set being edited
max_blocks == 10
CreateBlock(k, ci, side, block_type) ==
  /\ Idle
  /\ k \in DOMAIN cache
  /\ ci \in 1..Len(cache[k].cards)
  /\ IF Len(cache[k].cards[ci][side]) >= max_blocks
     THEN /\ hist' = Record(Called("create_block", k, << >>, "Block Limit"))
          /\ UNCHANGED << cache, idgen >>
     ELSE /\ cache' = MutateObj(cache, cache[k].oid,
                         [cards |-> [cache[k].cards EXCEPT ![ci][side] =
                            Append(@, create_block_from_type(block_type, idgen + 1, clock))]])
          /\ idgen' = idgen + 1
          /\ hist' = Record(Called("create_block", k, << >>, "ok"))
  /\ UNCHANGED << sets, icons, available, archive, iv, clock, pyqt, budget, backups, sets_dir >>

\* what set_image, set_audio and set_video do with a vault manager and a set
\* name once the file is accepted: copy_media_file, store the name returned,
\* then unlink get_full_path() when the block had another reference before.
\* b0 is the block as the setter has left it up to the copy.
StoreMedia(k, ci, side, bi, source, b0) ==
  LET fs == cache[k]
      attr == PathAttr(b0.block_type)
      folder == MediaFolder(b0.block_type)
      old_path == b0[attr]
      old == IF fs.name \in DOMAIN sets THEN sets[fs.name] ELSE NoSetDir
      copied == CopiedMedia(old, source, b0.block_type)
      b1 == [b0 EXCEPT ![attr] = copied.dest_name]
      old_full_path == get_full_path(b1)
      files == FilesOf(copied.dir[folder])
      cleaned == IF old_path # << >> /\ old_path # copied.dest_name
                    /\ old_full_path[2] \in DOMAIN files
                 THEN [copied.dir EXCEPT ![folder] = Some(Drop(files, old_full_path[2]))]
                 ELSE copied.dir
  IN  /\ sets' = Put(sets, fs.name, cleaned)
      /\ cache' = MutateObj(cache, fs.oid, [cards |-> [fs.cards EXCEPT ![ci][side][bi] = b1]])
      /\ sets_dir' = TRUE
      /\ hist' = Record(Called(SetterOf(b0.block_type), fs.name, copied.dest_name, "ok"))

\* the block (ci, side, bi) of the cached set k is of the given type
IsBlock(k, ci, side, bi, block_type) ==
  /\ k \in DOMAIN cache
  /\ ci \in 1..Len(cache[k].cards)
  /\ bi \in 1..Len(cache[k].cards[ci][side])
  /\ cache[k].cards[ci][side][bi].block_type = block_type

\* ImageBlock.set_image(source, vault_manager, set_name) from the edit widget;
\* source.size is what PIL reports for the file
set_image(k, ci, side, bi, source) ==
  /\ Idle
  /\ IsBlock(k, ci, side, bi, "image")
  /\ LET b == cache[k].cards[ci][side][bi]
         sized == [b EXCEPT !.width = source.size[1], !.height = source.size[2]]
     IN  IF sized.width > max_width \/ sized.height > max_height
         THEN /\ cache' = MutateObj(cache, cache[k].oid,
                             [cards |-> [cache[k].cards EXCEPT ![ci][side][bi] = sized]])
              /\ hist' = Record(Called("set_image", cache[k].name, << >>, "ValueError"))
              /\ UNCHANGED << sets, sets_dir >>
         ELSE StoreMedia(k, ci, side, bi, source,
                         [sized EXCEPT !.original_filename = source.name])
  /\ UNCHANGED << icons, available, archive, iv, clock, idgen, pyqt, budget, backups >>

\* AudioBlock.set_audio(source, vault_manager, set_name)
set_audio(k, ci, side, bi, source) ==
  /\ Idle
  /\ IsBlock(k, ci, side, bi, "audio")
  /\ LET b == cache[k].cards[ci][side][bi]
     IN  IF Suffix(source.name) \notin audio_extensions
         THEN /\ hist' = Record(Called("set_audio", cache[k].name, << >>, "ValueError"))
              /\ UNCHANGED << sets, cache, sets_dir >>
         ELSE StoreMedia(k, ci, side, bi, source,
                         [b EXCEPT !.original_filename = source.name])
  /\ UNCHANGED << icons, available, archive, iv, clock, idgen, pyqt, budget, backups >>

\* VideoBlock.set_video(source, vault_manager, set_name)
set_video(k, ci, side, bi, source) ==
  /\ Idle
  /\ IsBlock(k, ci, side, bi, "video")
  /\ LET b == cache[k].cards[ci][side][bi]
     IN  IF Suffix(source.name) \notin video_extensions
         THEN /\ hist' = Record(Called("set_video", cache[k].name, << >>, "ValueError"))
              /\ UNCHANGED << sets, cache, sets_dir >>
         ELSE StoreMedia(k, ci, side, bi, source,
                         [b EXCEPT !.original_filename = source.name])
  /\ UNCHANGED << icons, available, archive, iv, clock, idgen, pyqt, budget, backups >>

\* ---------------------------------------- VaultManager.cleanup_unused_media
\* the names collected from the blocks of flash_set (lines 783-794)
referenced_files(flash_set) ==
  UNION {{flash_set.cards[ci][side][bi][PathAttr(flash_set.cards[ci][side][bi].block_type)] :
            bi \in {i \in 1..Len(flash_set.cards[ci][side]) :
                      /\ flash_set.cards[ci][side][i].block_type \in BlockTypes
                      /\ flash_set.cards[ci][side][i][PathAttr(flash_set.cards[ci][side][i].block_type)] # << >>}} :
           ci \in 1..Len(flash_set.cards), side \in Sides}
\* a media directory after the files that are not in `referenced` are unlinked
KeepReferenced(dir, referenced) ==
  IF IsPresent(dir)
  THEN Some([f \in {x \in DOMAIN Content(dir) : x \in referenced} |-> Content(dir)[f]])
  ELSE dir
\* the paths it returns, as (folder, file name) pairs
RemovedFiles(d, referenced) ==
  {<< "images", f >> : f \in {x \in DOMAIN FilesOf(d.images) : x \notin referenced}}
  \cup {<< "sounds", f >> : f \in {x \in DOMAIN FilesOf(d.sounds) : x \notin referenced}}

CleanupUnusedMedia(set_name) ==
  /\ Idle
  /\ IF set_name \notin DOMAIN cache
        /\ (set_name \notin DOMAIN sets \/ ~IsPresent(sets[set_name].json))
     THEN \* load_set raises FileNotFoundError, re-raised as IOError
          /\ hist' = Record(Called("cleanup_unused_media", set_name, << >>, "IOError"))
          /\ UNCHANGED << sets, cache >>
     ELSE LET loaded == IF set_name \in DOMAIN cache THEN cache
                        ELSE Put(cache, set_name,
                                 update_last_accessed(
                                   from_dict(Content(sets[set_name].json), sets[set_name].cards,
                                             FreshOid, clock), clock))
              referenced == referenced_files(loaded[set_name])
              d == IF set_name \in DOMAIN sets THEN sets[set_name] ELSE NoSetDir
          IN  /\ cache' = loaded
              /\ sets' = IF set_name \in DOMAIN sets
                         THEN Put(sets, set_name,
                                  [d EXCEPT !.images = KeepReferenced(d.images, referenced),
                                            !.sounds = KeepReferenced(d.sounds, referenced)])
                         ELSE sets
              /\ hist' = Record(CalledWith("cleanup_unused_media", set_name, << >>, "ok", << >>,
                                           [oid |-> 0, removed_files |-> RemovedFiles(d, referenced)]))
  /\ UNCHANGED << icons, available, archive, iv, clock, idgen, pyqt, budget, backups, sets_dir >>

\* -------------------------------------- VaultManager.validate_vault_integrity
\* the issues of one listed set (lines 687-706); an issue is kept as the set
\* name and the text that follows it in the message
SetIssues(vault, set_name) ==
  LET d == vault[set_name]
      Issue(what) == [set_name |-> set_name, issue |-> what]
  IN  (IF ~IsPresent(d.json) THEN {Issue("Missing set.json")} ELSE {})
      \cup (IF ~IsPresent(d.cards) THEN {Issue("Missing cards.json")} ELSE {})
      \cup (IF ~IsPresent(d.json) \/ ~Parses(Content(d.json))
            THEN {Issue("Invalid metadata")} ELSE {})
      \cup (IF ~IsPresent(d.images) THEN {Issue("Missing images directory")} ELSE {})
      \cup (IF ~IsPresent(d.sounds) THEN {Issue("Missing sounds directory")} ELSE {})
\* a check that gives up after the first set that has an issue
IntegrityIssues_FirstSetOnly(vault, listed) ==
  IF \E n \in listed : SetIssues(vault, n) # {}
  THEN SetIssues(vault, CHOOSE n \in listed : SetIssues(vault, n) # {})
  ELSE {}
\* the issues list, without its order: the loop over get_available_sets()
IntegrityIssues(vault, listed) == UNION {SetIssues(vault, n) : n \in listed}

ValidateVaultIntegrity ==
  /\ Idle
  /\ LET issues == IF ListedSets[1] = "ok" THEN IntegrityIssues(sets, ListedSets[2])
                   ELSE {[set_name |-> << >>, issue |-> "Vault integrity check failed"]}
     IN  hist' = Record(CalledWith("validate_vault_integrity", << >>, << >>, "ok", << >>,
                                   [oid |-> 0, valid |-> issues = {}, issues |-> issues]))
  /\ UNCHANGED << sets, cache, icons, available, archive, iv, clock, idgen, pyqt, budget,
                  backups, sets_dir >>

\* a new process: VaultManager.__init__ starts with an empty cache (line 96), as
\* sets_cache.clear() leaves it
ClearCache ==
  /\ Idle
  /\ cache # << >>
  /\ cache' = << >>
  /\ hist' = Record(Called("clear_cache", << >>, << >>, "ok"))
  /\ UNCHANGED << sets, icons, available, archive, iv, clock, idgen, pyqt, budget, backups, sets_dir >>

\* ---------------------------------------------------------- specifications
\* IconManager.__init__ and VaultManager.__init__ on an empty directory
Constructed ==
  /\ sets = << >>
  /\ cache = << >>
  /\ icons = install_default_icon_collection(<< >>)
  /\ available = {DefaultIcon}
  /\ archive = NoArchive
  /\ iv = NoImport
  /\ backups = << >>
  /\ sets_dir = TRUE
  /\ clock = 0
  /\ idgen = 0
  /\ hist = << [op |-> "init", name |-> << >>, to |-> << >>, result |-> "ok",
              how |-> << >>, obj |-> NoObj, n |-> 0] >>

Meta1 == [description |-> << >>, icon_set |-> DefaultIcon, tags |-> << >>, difficulty |-> 1]
Meta2 == [description |-> << "d" >>, icon_set |-> IconI, tags |-> << << "t" >> >>, difficulty |-> 3]
CreateInputs == {<< NameA, Meta1 >>, << NameB, Meta2 >>, << NameBad, Meta1 >>}
\* what the AI card dialog returns
CardDataInputs == {[information |-> << "q" >>, answer |-> << "a" >>],
                   [information |-> << "q" >>, answer |-> << >>]}
UpdateInputs ==
  {[name |-> n, description |-> Meta2.description, icon_set |-> Meta2.icon_set,
    tags |-> Meta2.tags, difficulty |-> Meta2.difficulty] : n \in {NameA, NameB}}

\* the set repository: create, load, save, patch, rename, delete
Init == Constructed /\ pyqt = TRUE /\ budget = MaxCalls

Next ==
  \/ \E c \in CreateInputs : CreateSet(c[1], c[2])
  \/ \E name \in {NameA, NameB} : LoadSet(name)
  \/ \E k \in DOMAIN cache : SaveSet(k)
  \/ \E name \in {NameA, NameB} : DeleteSet(name)
  \/ \E name \in {NameA, NameB}, updated_data \in UpdateInputs : UpdateSetMetadata(name, updated_data)
  \/ \E old_name \in {NameA, NameB}, new_name \in {NameA, NameB, NameBad} : RenameSet(old_name, new_name)
  \/ \E k \in DOMAIN cache : AddCard(k)
  \/ \E k \in DOMAIN cache, card_data \in CardDataInputs : AiNewCard(k, card_data)
  \/ ClearCache
  \/ Tick

Spec == Init /\ [][Next]_vars

\* single-set archives: sets with media, export_set, import_set
InitArchive == Constructed /\ pyqt = TRUE /\ budget = MaxArchiveCalls

NextArchive ==
  \/ \E c \in {<< NameA, Meta1 >>, << NameB, Meta2 >>} : CreateSet(c[1], c[2])
  \/ \E source \in MediaInputs, media_type \in {"image", "audio"} :
       CopyMediaFile(source, NameA, media_type)
  \/ \E k \in DOMAIN cache : AiNewCard(k, [information |-> << "q" >>, answer |-> << "a" >>])
  \/ \E set_name \in {NameA, NameB} : ExportSet(set_name)
  \/ \E new_name \in {<< >>, NameB, NameA2} : ImportSet(new_name)

SpecArchive == InitArchive /\ [][NextArchive]_vars

\* icon sets and single-set archives
InitIcons == Constructed /\ pyqt = TRUE /\ budget = MaxIconCalls

NextIcons ==
  \/ CreateSet(NameB, Meta2)
  \/ \E image \in ImageInputs, icon_set_name \in IconNameInputs :
       InstallCustomIcon(image, icon_set_name)
  \/ \E icon_set_name \in IconNameInputs : DeleteIconSet(icon_set_name)
  \/ ExportSet(NameB)
  \/ \E new_name \in {<< >>, NameA} : ImportSet(new_name)

SpecIcons == InitIcons /\ [][NextIcons]_vars

\* vault archives: export_entire_vault and import_vault in merge mode, with
\* PyQt (the conflict dialog answers) and without (PYQT_AVAILABLE false)
InitMerge == Constructed /\ pyqt \in BOOLEAN /\ budget = MaxMergeCalls

NextMerge ==
  \/ \E c \in {<< NameA, Meta1 >>, << NameB, Meta2 >>} : CreateSet(c[1], c[2])
  \/ \E image \in {"img1", "img2"}, icon_set_name \in IconNameInputs :
       InstallCustomIcon(image, icon_set_name)
  \/ \E k \in DOMAIN cache : AiNewCard(k, [information |-> << "q" >>, answer |-> << "a" >>])
  \/ ExportVault
  \/ ImportVaultBegin
  \/ \E original_name \in iv.todo :
       \E answer \in Answers(FirstFree(original_name, 2, iv.existing_sets)) \cup {NoAnswer} :
         ImportVaultStep(original_name, answer)
  \/ ImportVaultReturn

SpecMerge == InitMerge /\ [][NextMerge]_vars

\* the same, with copies of staged sets that can fail
InitMergeFail == Constructed /\ pyqt \in BOOLEAN /\ budget = MaxMergeFailCalls

NextMergeFail ==
  \/ \E c \in {<< NameA, Meta1 >>, << NameB, Meta2 >>} : CreateSet(c[1], c[2])
  \/ \E name \in {NameA, NameB} : DeleteSet(name)
  \/ ExportVault
  \/ ImportVaultBegin
  \/ \E original_name \in iv.todo :
       \E answer \in Answers(FirstFree(original_name, 2, iv.existing_sets)) \cup {NoAnswer} :
         ImportVaultStep(original_name, answer)
  \/ \E original_name \in iv.todo, outcome \in FailOutcomes :
       \E answer \in Answers(FirstFree(original_name, 2, iv.existing_sets)) \cup {NoAnswer} :
         ImportVaultStepFails(original_name, answer, outcome)
  \/ ImportVaultReturn

SpecMergeFail == InitMergeFail /\ [][NextMergeFail]_vars

\* the vault replaced by an archive: sets are created and deleted, the vault is
\* exported, time passes, and import_vault runs in replace mode
InitReplace == Constructed /\ pyqt = TRUE /\ budget = MaxReplaceCalls
NextReplace ==
  \/ \E name \in {NameA, NameB} : CreateSet(name, IF name = NameA THEN Meta1 ELSE Meta2)
  \/ \E name \in {NameA, NameB} : DeleteSet(name)
  \/ ExportVault
  \/ ImportVaultReplace
  \/ Tick
SpecReplace == InitReplace /\ [][NextReplace]_vars

\* the media blocks of a set being edited: blocks are created and given files
InitBlocks == Constructed /\ pyqt = TRUE /\ budget = MaxBlockCalls
NextBlocks ==
  \/ CreateSet(NameA, Meta1)
  \/ \E k \in DOMAIN cache, side \in Sides, block_type \in BlockTypes :
       CreateBlock(k, 1, side, block_type)
  \/ \E k \in DOMAIN cache, side \in Sides, bi \in 1..2, source \in ImageSources :
       set_image(k, 1, side, bi, source)
  \/ \E k \in DOMAIN cache, side \in Sides, bi \in 1..2, source \in AudioSources :
       set_audio(k, 1, side, bi, source)
  \/ \E k \in DOMAIN cache, side \in Sides, bi \in 1..2, source \in VideoSources :
       set_video(k, 1, side, bi, source)
SpecBlocks == InitBlocks /\ [][NextBlocks]_vars

\* media files of a set and the blocks that refer to them, with cleanup
InitCleanup == Constructed /\ pyqt = TRUE /\ budget = MaxCleanupCalls
NextCleanup ==
  \/ CreateSet(NameA, Meta1)
  \/ \E k \in DOMAIN cache, block_type \in {"image", "audio"} :
       CreateBlock(k, 1, "information_side", block_type)
  \/ \E k \in DOMAIN cache, source \in ImageSources : set_image(k, 1, "information_side", 1, source)
  \/ \E k \in DOMAIN cache, source \in AudioSources : set_audio(k, 1, "information_side", 1, source)
  \/ \E source \in MediaInputs, media_type \in {"image", "audio"} :
       CopyMediaFile(source, NameA, media_type)
  \/ \E k \in DOMAIN cache : SaveSet(k)
  \/ ClearCache
  \/ CleanupUnusedMedia(NameA)
SpecCleanup == InitCleanup /\ [][NextCleanup]_vars

\* copy_media_file called over and over on the folders of one set, created
\* or not
InitCopy == Constructed /\ pyqt = TRUE /\ budget = MaxCopyCalls
NextCopy ==
  \/ CreateSet(NameA, Meta1)
  \/ \E source \in CopySources, media_type \in MediaTypes :
       CopyMediaFile(source, NameA, media_type)
SpecCopy == InitCopy /\ [][NextCopy]_vars

\* the set.json of a set found on disk
FoundMetadata ==
  [name |-> NameA, description |-> << >>, icon_set |-> DefaultIcon, tags |-> << >>,
   difficulty_level |-> 1, created_date |-> 0, last_accessed |-> NoneT, card_count |-> 0]

\* validate_set_name on the names above, in vaults whose listed sets carry a
\* plain name, a name with an illegal character or an overlong name
ListedInputs == {NameA, NameBad, NameLong}
InitValidate ==
  /\ cache = << >>
  /\ icons = install_default_icon_collection(<< >>)
  /\ available = {DefaultIcon}
  /\ archive = NoArchive
  /\ iv = NoImport
  /\ backups = << >>
  /\ sets_dir = TRUE
  /\ clock = 0
  /\ idgen = 0
  /\ hist = << [op |-> "init", name |-> << >>, to |-> << >>, result |-> "ok",
                how |-> << >>, obj |-> NoObj, n |-> 0] >>
  /\ pyqt = TRUE
  /\ budget = MaxValidateCalls
  /\ \E names \in SUBSET ListedInputs :
       sets = [n \in names |->
                 [json |-> Some([FoundMetadata EXCEPT !.name = n]),
                  cards |-> Some([cards |-> << >>]),
                  images |-> Some(EmptyDir), sounds |-> Some(EmptyDir), icons |-> << >>]]
NextValidate == \E name \in ValidateInputs : ValidateSetName(name)
SpecValidate == InitValidate /\ [][NextValidate]_vars

\* validate_vault_integrity on the vaults it may find on disk: up to two set
\* directories, each file and folder of a set there or not, set.json parsable
\* or not, and the vault with or without its sets/ directory
DirStates ==
  [json : {Absent, Some(FoundMetadata), Some(Unparsable)},
   cards : {Absent, Some([cards |-> << >>])},
   images : {Absent, Some(EmptyDir)},
   sounds : {Absent, Some(EmptyDir)},
   icons : {<< >>}]
VaultStates ==
  UNION {[names -> DirStates] : names \in SUBSET {NameA, NameB}}
InitIntegrity ==
  /\ cache = << >>
  /\ icons = install_default_icon_collection(<< >>)
  /\ available = {DefaultIcon}
  /\ archive = NoArchive
  /\ iv = NoImport
  /\ backups = << >>
  /\ clock = 0
  /\ idgen = 0
  /\ hist = << [op |-> "init", name |-> << >>, to |-> << >>, result |-> "ok",
                how |-> << >>, obj |-> NoObj, n |-> 0] >>
  /\ pyqt = TRUE
  /\ budget = MaxIntegrityCalls
  /\ sets_dir \in BOOLEAN
  /\ sets \in IF sets_dir THEN VaultStates ELSE {<< >>}
NextIntegrity == ValidateVaultIntegrity
SpecIntegrity == InitIntegrity /\ [][NextIntegrity]_vars

\* load_set on the set directories it may find on disk: set.json missing,
\* unparsable, without a name or as written by save_set; cards.json missing,
\* unparsable, with a block of an unknown type or as written by save_set
NoNameMetadata == [description |-> << >>, icon_set |-> DefaultIcon]
FoundCards ==
  [cards |-> << CardToDict([NewFlashCard(1, 0) EXCEPT
                              !.information_side = << NewTextBlock(2, 0, << "q" >>) >>]) >>]
UnknownBlockCards ==
  [cards |-> << [card_id |-> 1,
                 information_side |-> << [block_id |-> 2, block_type |-> "table"] >>,
                 answer_side |-> << >>] >>]
LoadDirStates(n) ==
  [json : {Absent, Some([FoundMetadata EXCEPT !.name = n]), Some(Unparsable),
           Some(NoNameMetadata)},
   cards : {Absent, Some(FoundCards), Some(Unparsable), Some(UnknownBlockCards)},
   images : {Some(EmptyDir)},
   sounds : {Some(EmptyDir)},
   icons : {<< >>}]
LoadVaultStates ==
  UNION {{v \in [names -> UNION {LoadDirStates(n) : n \in names}] :
            \A n \in names : v[n] \in LoadDirStates(n)} :
         names \in SUBSET {NameA, NameB}}
InitLoad ==
  /\ cache = << >>
  /\ icons = install_default_icon_collection(<< >>)
  /\ available = {DefaultIcon}
  /\ archive = NoArchive
  /\ iv = NoImport
  /\ backups = << >>
  /\ sets_dir = TRUE
  /\ clock = 0
  /\ idgen = 0
  /\ hist = << [op |-> "init", name |-> << >>, to |-> << >>, result |-> "ok",
                how |-> << >>, obj |-> NoObj, n |-> 0] >>
  /\ pyqt = TRUE
  /\ budget = MaxLoadCalls
  /\ sets \in LoadVaultStates
NextLoad ==
  \/ \E name \in {NameA, NameB} : LoadSet(name)
  \/ \E name \in {NameA, NameB} : LoadSetReadError(name)
  \/ ClearCache
SpecLoad == InitLoad /\ [][NextLoad]_vars

\* set names of every kind given to create_set and rename_set
NameInputs == {<< >>, NameBlank, NameA, NameB, NameBad, NameLong}
InitNames == Constructed /\ pyqt = TRUE /\ budget = MaxNameCalls
NextNames ==
  \/ \E name \in NameInputs : CreateSet(name, Meta1)
  \/ \E old_name \in {NameA, NameB, NameBad}, new_name \in NameInputs :
       RenameSet(old_name, new_name)
  \/ ClearCache
SpecNames == InitNames /\ [][NextNames]_vars

\* import_set with chosen names of every kind
InitImportNames == Constructed /\ pyqt = TRUE /\ budget = MaxImportNameCalls
NextImportNames ==
  \/ \E name \in {NameA, NameB} : CreateSet(name, Meta1)
  \/ ExportSet(NameA)
  \/ \E new_name \in NameInputs : ImportSet(new_name)
SpecImportNames == InitImportNames /\ [][NextImportNames]_vars

\* the icon registry: icon sets are installed from images, drawn, deleted, and
\* brought in by import_set and by import_vault in both modes (headless)
RegistryNames == {IconI, DefaultIcon}
InitRegistry == Constructed /\ pyqt = FALSE /\ budget = MaxRegistryCalls
NextRegistry ==
  \/ CreateSet(NameB, Meta2)
  \/ \E image \in {"img1", "corrupt"}, icon_set_name \in RegistryNames :
       InstallCustomIcon(image, icon_set_name)
  \/ \E name \in RegistryNames, color_scheme \in ColorSchemes :
       CreateEducationalIconSet(name, color_scheme)
  \/ \E icon_set_name \in RegistryNames : DeleteIconSet(icon_set_name)
  \/ ExportSet(NameB)
  \/ ImportSet(NameA)
  \/ ExportVault
  \/ ImportVaultReplace
  \/ ImportVaultBegin
  \/ \E original_name \in iv.todo : ImportVaultStep(original_name, NoAnswer)
  \/ ImportVaultReturn
SpecRegistry == InitRegistry /\ [][NextRegistry]_vars

\* difficulty levels inside and outside the 1-5 scale given to create_set,
\* update_set_metadata and FlashCardSet.update_metadata
DifficultyInputs == {0, 3, 6}
InitDifficulty == Constructed /\ pyqt = TRUE /\ budget = MaxDifficultyCalls
NextDifficulty ==
  \/ \E difficulty \in DifficultyInputs :
       CreateSet(NameA, [Meta1 EXCEPT !.difficulty = difficulty])
  \/ \E difficulty \in DifficultyInputs :
       UpdateSetMetadata(NameA, [name |-> NameA, description |-> << >>,
                                 icon_set |-> DefaultIcon, tags |-> << >>,
                                 difficulty |-> difficulty])
  \/ \E k \in DOMAIN cache, difficulty \in DifficultyInputs : UpdateMetadata(k, difficulty)
  \/ \E k \in DOMAIN cache : SaveSet(k)
SpecDifficulty == InitDifficulty /\ [][NextDifficulty]_vars

\* the blocks of one card: a set that create_set made, whose card has been
\* given 0, 1, 9 or 10 text blocks on each side, and then add_block_to_side,
\* remove_block_from_side and move_block with side names and indices inside
\* and outside their ranges
BlocksGiven(n, first_id) == [i \in 1..n |-> NewTextBlock(first_id + i, 0, << "q" >>)]
SideLengths == {0, 1, 9, 10}
IndexInputs == {0, 1, 10}
SideInputs == SideNames \cup {"front"}
EditedSet(information_side, answer_side) ==
  [oid |-> 1, name |-> NameA, description |-> << >>, icon_set |-> DefaultIcon,
   tags |-> << >>, difficulty_level |-> 1, created_date |-> 0, last_accessed |-> NoneT,
   cards |-> << [NewFlashCard(1, 0) EXCEPT !.information_side = information_side,
                                           !.answer_side = answer_side] >>]
InitSides ==
  /\ icons = install_default_icon_collection(<< >>)
  /\ available = {DefaultIcon}
  /\ archive = NoArchive
  /\ iv = NoImport
  /\ backups = << >>
  /\ sets_dir = TRUE
  /\ clock = 0
  /\ idgen = 21
  /\ hist = << [op |-> "init", name |-> << >>, to |-> << >>, result |-> "ok",
                how |-> << >>, obj |-> NoObj, n |-> 0] >>
  /\ pyqt = TRUE
  /\ budget = MaxSideCalls
  /\ sets = [n \in {NameA} |->
               [json |-> Some(to_dict(EditedSet(<< >>, << >>))),
                cards |-> Some(cards_to_dict(EditedSet(<< >>, << >>))),
                images |-> Some(EmptyDir), sounds |-> Some(EmptyDir), icons |-> << >>]]
  /\ \E i, a \in SideLengths :
       cache = [n \in {NameA} |-> EditedSet(BlocksGiven(i, 1), BlocksGiven(a, 11))]
NextSides ==
  \/ \E side \in SideInputs : AddBlockToSide(NameA, 1, side, NewTextBlock(21, 0, << "a" >>))
  \/ \E side \in SideInputs, block_index \in IndexInputs :
       RemoveBlockFromSide(NameA, 1, side, block_index)
  \/ \E side \in SideInputs, from_index \in IndexInputs, to_index \in IndexInputs :
       MoveBlock(NameA, 1, side, from_index, to_index)
SpecSides == InitSides /\ [][NextSides]_vars

\* safe_filename on every string of up to MaxShortLen characters drawn from a
\* letter, a dot, a blank and an illegal character, on the same strings behind
\* 254 letters, and on a name whose extension is longer than 255 characters
FilenameChars == {"a", ".", " ", ":"}
ShortNames == UNION {[1..n -> FilenameChars] : n \in 0..MaxShortLen}
Letters(n) == [i \in 1..n |-> "a"]
LongNames == {Letters(254) \o s : s \in ShortNames}
LongSuffixNames == {<< "a", "." >> \o Letters(255 + n) : n \in 0..MaxShortLen}
FilenameInputs == ShortNames \cup LongNames \cup LongSuffixNames
InitSafeName == Constructed /\ pyqt = TRUE /\ budget = MaxSafeNameCalls
NextSafeName == \E filename \in FilenameInputs : SafeFilename(filename)
SpecSafeName == InitSafeName /\ [][NextSafeName]_vars

\* import_vault in both modes with copies that can fail
StagedSets == IF archive.kind = "vault" THEN DOMAIN archive.sets ELSE {}
InitImportFail == Constructed /\ pyqt \in BOOLEAN /\ budget = MaxImportFailCalls
NextImportFail ==
  \/ \E name \in {NameA, NameB} : CreateSet(name, Meta1)
  \/ \E name \in {NameA, NameB} : LoadSet(name)
  \/ ExportVault
  \/ ImportVaultReplace
  \/ \E failing \in StagedSets :
       \E copied \in SUBSET (StagedSets \ {failing}) :
         ImportVaultReplaceFails(failing, copied)
  \/ ImportVaultBegin
  \/ \E original_name \in iv.todo :
       \E answer \in Answers(FirstFree(original_name, 2, iv.existing_sets)) \cup {NoAnswer} :
         ImportVaultStep(original_name, answer)
  \/ \E original_name \in iv.todo, outcome \in FailOutcomes :
       \E answer \in Answers(FirstFree(original_name, 2, iv.existing_sets)) \cup {NoAnswer} :
         ImportVaultStepFails(original_name, answer, outcome)
  \/ ImportVaultReturn
SpecImportFail == InitImportFail /\ [][NextImportFail]_vars

\* a set with or without media is exported and imported again, alone under
\* another name or with the vault into the vault emptied by delete_set
InitRoundTrip == Constructed /\ pyqt = TRUE /\ budget = MaxRoundTripCalls
NextRoundTrip ==
  \/ CreateSet(NameA, Meta1)
  \/ \E media_type \in {"image", "audio"} :
       CopyMediaFile([name |-> << "p", ".", "g" >>, bytes |-> "bytes1"], NameA, media_type)
  \/ DeleteSet(NameA)
  \/ ExportSet(NameA)
  \/ ImportSet(NameB)
  \/ ExportVault
  \/ ImportVaultBegin
  \/ \E original_name \in iv.todo : ImportVaultStep(original_name, NoAnswer)
  \/ ImportVaultReturn
SpecRoundTrip == InitRoundTrip /\ [][NextRoundTrip]_vars

\* ------------------------------------------------------------------ claims
\* the call made i calls ago (1 = the last one); FALSE when the history is shorter
Was(i, op, result) == Len(hist) >= i /\ hist[i].op = op /\ hist[i].result = result

\* C6: create_set(N) with a name N that passes validate_set_name, followed by
\* load_set(N) - from the cache, or from disk after the cache was cleared -
\* returns a set named N that has exactly one card, with no block on either side.
CreatedThenLoaded ==
  /\ last.op = "load_set"
  /\ \/ Was(2, "create_set", "ok") /\ hist[2].name = last.name
     \/ Was(2, "clear_cache", "ok") /\ Was(3, "create_set", "ok") /\ hist[3].name = last.name
C6_CreateThenLoad ==
  CreatedThenLoaded =>
    /\ last.result = "ok"
    /\ last.name \in DOMAIN cache
    /\ cache[last.name].name = last.name
    /\ Len(cache[last.name].cards) = 1
    /\ cache[last.name].cards[1].information_side = << >>
    /\ cache[last.name].cards[1].answer_side = << >>
C6_Witness == CreatedThenLoaded /\ last.how = << "disk" >> /\ last.result = "ok"

\* save_set(S) (or the save_set inside create_set), the cache cleared, load_set(S.name)
SavedClearedLoaded ==
  /\ Was(1, "load_set", "ok") /\ last.how = << "disk" >>
  /\ Was(2, "clear_cache", "ok")
  /\ Was(3, "save_set", "ok") \/ Was(3, "create_set", "ok")
  /\ hist[3].name = last.name
SameCardsAndMetadata(L, S) ==
  /\ L.name = S.name
  /\ L.description = S.description
  /\ L.icon_set = S.icon_set
  /\ L.tags = S.tags
  /\ L.difficulty_level = S.difficulty_level
  /\ L.created_date = S.created_date
  /\ L.cards = S.cards

\* C5 as claimed: save_set(S), the cache cleared, load_set(S.name) returns a set
\* equal to S in every metadata field, last_accessed included, and in its cards.
C5_Original ==
  SavedClearedLoaded =>
    /\ SameCardsAndMetadata(cache[last.name], hist[3].obj)
    /\ cache[last.name].last_accessed = hist[3].obj.last_accessed

\* C5 as amended: save_set(S), the cache cleared, load_set(S.name) returns a set
\* equal to S in name, description, icon_set, tags, difficulty_level, created_date
\* and cards; its last_accessed is the time of the load, not the value S had.
C5_RoundTripButLastAccessed ==
  SavedClearedLoaded =>
    /\ SameCardsAndMetadata(cache[last.name], hist[3].obj)
    /\ cache[last.name].last_accessed = clock
C5_Witness ==
  /\ SavedClearedLoaded
  /\ Was(3, "save_set", "ok")
  /\ Len(cache[last.name].cards) = 2
  /\ cache[last.name].cards[2].information_side # << >>
  /\ cache[last.name].last_accessed # hist[3].obj.last_accessed

\* C7: after a successful rename_set(old, new) with old # new, old is neither
\* listed nor cached, new is listed, and load_set(new) returns a set named new,
\* from the cache and from disk alike (set.json of new holds the name new).
C7_Original ==
  (Was(1, "rename_set", "ok") /\ last.name # last.to) =>
    /\ last.name \notin get_available_sets
    /\ last.name \notin DOMAIN cache
    /\ last.to \in get_available_sets
    /\ from_dict(Content(sets[last.to].json), sets[last.to].cards, 0, clock).name = last.to
    /\ last.to \in DOMAIN cache => cache[last.to].name = last.to

\* the fields update_set_metadata patches, in the object and in set.json
AgreeOnMetadata(fs, set_data) ==
  /\ set_data.name = fs.name
  /\ set_data.description = fs.description
  /\ set_data.icon_set = fs.icon_set
  /\ set_data.tags = fs.tags
  /\ set_data.difficulty_level = fs.difficulty_level
  /\ Get(set_data, "last_modified", NoneT) = Get(to_dict(fs), "last_modified", NoneT)

\* C8: after update_set_metadata(name, fields) on a set with a cached instance,
\* the instance and set.json agree on name, description, icon_set, tags,
\* difficulty_level and last_modified; after a later save_set of that instance
\* they still agree, the patch is still in set.json, and the instance was saved
\* into the directory of the set, not into a second one.
C8_Original ==
  /\ (Was(1, "update_set_metadata", "ok") /\ last.name \in DOMAIN cache) =>
       AgreeOnMetadata(cache[last.name], Content(sets[last.name].json))
  /\ (/\ Was(1, "save_set", "ok")
      /\ Was(2, "update_set_metadata", "ok")
      /\ hist[2].name \in DOMAIN cache
      /\ cache[hist[2].name].oid = last.obj.oid) =>
       /\ last.name = hist[2].name
       /\ AgreeOnMetadata(cache[hist[2].name], Content(sets[hist[2].name].json))
       /\ "last_modified" \in DOMAIN Content(sets[hist[2].name].json)

\* export_set(S) was the last call and import_set(name2) is the call being made
RoundTrip(S, name2) ==
  /\ hist'[1].result = "ok"
  /\ name2 \in DOMAIN sets'
  /\ sets'[name2].cards = sets[S].cards
  /\ FilesOf(sets'[name2].images) = FilesOf(sets[S].images)
  /\ FilesOf(sets'[name2].sounds) = FilesOf(sets[S].sounds)
  /\ sets'[S] = sets[S]

\* C1: for every set S of the vault and every valid name2 that is not the name
\* of an existing set, export_set(S) followed by import_set(archive, name2)
\* makes a set directory name2 whose cards.json and whose files under images/
\* and sounds/ are those of S, names and bytes, and leaves S unchanged.
C1_ExportImportRoundTrip ==
  [][(/\ Was(1, "export_set", "ok")
      /\ last.name \in get_available_sets
      /\ hist'[1].op = "import_set"
      /\ hist'[1].n = last.n + 1
      /\ hist'[1].to # << >>
      /\ validate_set_name(hist'[1].to)[1]
      /\ hist'[1].to \notin get_available_sets)
     => RoundTrip(last.name, hist'[1].to)]_vars
C1_Witness ==
  /\ Was(1, "import_set", "ok") /\ last.to # << >>
  /\ Was(2, "export_set", "ok")
  /\ hist[2].name \in get_available_sets
  /\ FilesOf(sets[hist[2].name].images) # EmptyDir
  /\ FilesOf(sets[hist[2].name].sounds) # EmptyDir
  /\ FilesOf(sets[last.to].images) = FilesOf(sets[hist[2].name].images)
  /\ FilesOf(sets[last.to].sounds) = FilesOf(sets[hist[2].name].sounds)

\* C10: import_set leaves every local icon set that validates as it is; an
\* icon set bundled in the archive is installed when there is no local one of
\* its name, and replaces a local one that fails validation.
C10_ImportSetKeepsValidIcons ==
  [][(hist'[1].op = "import_set" /\ hist'[1].n = last.n + 1) =>
       /\ \A n \in DOMAIN icons : validate_icon_set(icons, n) => icons'[n] = icons[n]
       /\ hist'[1].result = "ok" =>
            \A n \in DOMAIN archive.root.icons :
              ~validate_icon_set(icons, n) => icons'[n] = archive.root.icons[n]]_vars
\* the local icon set was deleted, a failed install left its directory empty,
\* and the import put the bundled files there
C10_Witness ==
  /\ Was(1, "import_set", "ok")
  /\ Was(2, "install_custom_icon", "ValueError")
  /\ Was(3, "delete_icon_set", "ok")
  /\ IconI \in DOMAIN archive.root.icons
  /\ icons[IconI] = archive.root.icons[IconI]

\* the call being made starts an import_vault in merge mode
ImportVaultStarts == hist'[1].op = "import_vault" /\ hist'[1].n = last.n + 1

\* C9 as claimed: in a merge-mode import_vault a local icon set that has all
\* five sizes is left unchanged, whatever the archive bundles under its name.
C9_Original ==
  [][ImportVaultStarts =>
       \A n \in DOMAIN icons : validate_icon_set(icons, n) => icons'[n] = icons[n]]_vars

\* C9 as amended: in a merge-mode import_vault every icon set bundled in the
\* archive replaces the local icon set of its name, whether that one validates
\* or not; the local icon sets the archive does not bundle are left unchanged.
C9_MergeOverwritesIcons ==
  [][ImportVaultStarts =>
       /\ \A n \in DOMAIN archive.icons : n \in DOMAIN icons' /\ icons'[n] = archive.icons[n]
       /\ \A n \in (DOMAIN icons) \ (DOMAIN archive.icons) : icons'[n] = icons[n]]_vars
\* a valid local icon set made from img2 was replaced by the bundled one (img1)
C9_Witness ==
  /\ last.op = "import_vault"
  /\ Was(2, "install_custom_icon", "ok") /\ hist[2].how = << IconI, "img2" >>
  /\ last.n = hist[2].n + 1
  /\ IconI \in DOMAIN archive.icons
  /\ icons[IconI] = [size \in icon_sizes |-> "img1"]

\* the passes of the merge loop made so far, and the vault after pass i
Range(seq) == {seq[i] : i \in 1..Len(seq)}
After(i) == IF i < Len(iv.log) THEN iv.log[i + 1].before ELSE sets
InImportVault == last.op = "import_vault"

\* C2: in a merge-mode import_vault, when a staged set name collides with an
\* existing set and the dialog answers Ignore, the pass leaves the existing
\* directory of that name unchanged in every file (nothing of the archive is
\* stored under the name) and the name is in the 'ignored' list.
C2_IgnoreKeepsExisting ==
  InImportVault =>
    \A i \in 1..Len(iv.log) :
      LET e == iv.log[i]
          X == e.original_name
      IN  (e.asked /\ e.answer.result_action = IGNORE) =>
            /\ X \in DOMAIN After(i)
            /\ After(i)[X] = e.before[X]
            /\ X \in Range(iv.ignored)
            /\ X \notin Range(iv.imported)
C2_Witness ==
  /\ Was(1, "import_vault", "ok")
  /\ \E i \in 1..Len(iv.log) :
       /\ iv.log[i].asked /\ iv.log[i].answer.result_action = IGNORE
       /\ archive.sets[iv.log[i].original_name].cards # sets[iv.log[i].original_name].cards

\* a name that is not empty, not too long and has no invalid character
WellFormed(name) ==
  /\ Strip(name) # << >>
  /\ Len(name) <= MaxSetNameLen
  /\ \A i \in 1..Len(name) : name[i] \notin InvalidChars

\* C3: in a merge-mode import_vault, when staged set X (a directory with a
\* set.json) collides and the dialog answers Import with a name N that is valid
\* and not present, then after the pass X is unchanged, N exists, the set.json
\* of N has the name N, (X, N) is in 'renamed' and N is in 'imported'.
C3_ImportAsKeepsBoth ==
  InImportVault =>
    \A i \in 1..Len(iv.log) :
      LET e == iv.log[i]
          X == e.original_name
          N == e.answer.new_name
      IN  (/\ e.asked /\ e.answer.result_action = IMPORT
           /\ WellFormed(N)
           /\ N \notin DOMAIN e.before
           /\ IsPresent(archive.sets[X].json)) =>
            /\ X \in DOMAIN After(i) /\ After(i)[X] = e.before[X]
            /\ N \in DOMAIN After(i)
            /\ IsPresent(After(i)[N].json)
            /\ Content(After(i)[N].json).name = N
            /\ After(i)[N].cards = archive.sets[X].cards
            /\ << X, N >> \in Range(iv.renamed)
            /\ N \in Range(iv.imported)
C3_Witness ==
  /\ Was(1, "import_vault", "ok")
  /\ \E i \in 1..Len(iv.log) :
       /\ iv.log[i].asked /\ iv.log[i].answer.result_action = IMPORT
       /\ iv.log[i].answer.new_name = NameA2
       /\ iv.log[i].original_name = NameA
       /\ NameA2 \notin DOMAIN iv.log[i].before
       /\ NameA2 \in DOMAIN sets

\* the names of the sets of a vault: the directories with a set.json
SetNames(vault) == {n \in DOMAIN vault : IsPresent(vault[n].json)}

C11_IgnoreAllStopsAsking ==
  InImportVault =>
    \A i \in 1..Len(iv.log) : \A j \in (i + 1)..Len(iv.log) :
      (iv.log[i].asked /\ iv.log[i].answer.result_action = IGNORE_ALL) =>
        /\ ~iv.log[j].asked
        /\ iv.log[j].original_name \in SetNames(iv.log[j].before) =>
             /\ After(j) = iv.log[j].before
             /\ iv.log[j].original_name \in Range(iv.ignored)
             /\ iv.log[j].original_name \notin Range(iv.imported)
C11_Witness ==
  /\ Was(1, "import_vault", "ok")
  /\ Len(iv.log) = 2
  /\ iv.log[1].asked /\ iv.log[1].answer.result_action = IGNORE_ALL
  /\ iv.log[2].original_name \in SetNames(iv.log[2].before)
  /\ iv.ignored = << iv.log[1].original_name, iv.log[2].original_name >>

\* C12: in a merge-mode import_vault, every staged set whose name is not the
\* name of a set of the vault at that moment is imported under its original
\* name without the dialog, whatever was answered before (Ignore-all
\* included): when its copy does not fail, the directory of that name holds the
\* staged files afterwards, the name is in 'imported' and it was not renamed.
C12_NonCollidingImported ==
  InImportVault =>
    \A i \in 1..Len(iv.log) :
      LET e == iv.log[i]
          X == e.original_name
      IN  X \notin SetNames(e.before) =>
            /\ ~e.asked
            /\ ~e.failed =>
                 /\ X \in DOMAIN After(i) /\ After(i)[X] = archive.sets[X]
                 /\ X \in Range(iv.imported)
                 /\ \A r \in Range(iv.renamed) : r[1] # X
C12_Witness ==
  /\ Was(1, "import_vault", "ok")
  /\ Len(iv.log) = 2
  /\ iv.log[1].asked /\ iv.log[1].answer.result_action = IGNORE_ALL
  /\ iv.log[2].original_name \notin SetNames(iv.log[2].before)
  /\ iv.log[2].original_name \in SetNames(sets)
  /\ ~iv.log[2].failed

\* C13: a merge-mode import_vault does not stop because the copy of a staged
\* set raised: the original name of that set is in 'ignored', the call goes on
\* with the staged sets that are left, and when it returns every staged set
\* has had its pass and the result lists are returned.
C13_CopyFailureIsIgnored ==
  InImportVault =>
    /\ \A i \in 1..Len(iv.log) :
         iv.log[i].failed =>
           /\ iv.log[i].original_name \in Range(iv.ignored)
           /\ \/ iv.log[i].import_name \notin Range(iv.imported)
              \/ \E j \in 1..Len(iv.log) :
                   /\ j # i /\ ~iv.log[j].failed /\ ~iv.log[j].skipped
                   /\ iv.log[j].import_name = iv.log[i].import_name
    /\ {iv.log[i].original_name : i \in 1..Len(iv.log)} \cup iv.todo = DOMAIN archive.sets
    /\ last.result \in {"running", "ok"}
    /\ (last.result = "ok" /\ archive.sets # << >>) =>
         /\ iv.todo = {}
         /\ Len(iv.log) = Cardinality(DOMAIN archive.sets)
         /\ Len(iv.imported) + Len(iv.ignored) = Cardinality(DOMAIN archive.sets)
C13_Witness ==
  /\ Was(1, "import_vault", "ok")
  /\ Len(iv.log) = 2
  /\ iv.log[1].failed /\ ~iv.log[2].failed /\ ~iv.log[2].skipped
  /\ iv.ignored = << iv.log[1].original_name >>
  /\ iv.imported = << iv.log[2].import_name >>

\* C14: a replace-mode import_vault that completes leaves a vault whose listed
\* sets are exactly the set directories of the archive (the empty list for an
\* archive without sets), and the content the vault had before the call is
\* found unchanged in the backup directory next to it.
ReplaceCompleted ==
  /\ hist'[1].n = last.n + 1
  /\ hist'[1].op = "import_vault" /\ hist'[1].how = << "replace" >>
  /\ hist'[1].result = "ok"
C14_Original ==
  [][ReplaceCompleted =>
       /\ ListedSets' = << "ok", DOMAIN archive.sets >>
       /\ sets_dir => \E t \in DOMAIN backups' :
                        Some(sets) \in {backups'[t].top, backups'[t].inner}]_vars

\* the blocks of a FlashCardSet
MediaBlocksOf(fs) ==
  UNION {{fs.cards[ci][side][bi] : bi \in 1..Len(fs.cards[ci][side])} :
           ci \in 1..Len(fs.cards), side \in Sides}
\* the media reference of block b names a file of the set's folder
RefersToStoredFile(fs, b) ==
  /\ fs.name \in DOMAIN sets
  /\ get_full_path(b)[2] \in DOMAIN FilesOf(sets[fs.name][get_full_path(b)[1]])
\* the file names that the blocks of fs hold as their media reference
ReferencedBy(fs) ==
  {get_full_path(b)[2] :
     b \in {x \in MediaBlocksOf(fs) : /\ x.block_type \in BlockTypes
                                      /\ get_full_path(x)[2] # << >>}}
CleanupDone ==
  /\ hist'[1].n = last.n + 1
  /\ hist'[1].op = "cleanup_unused_media" /\ hist'[1].result = "ok"
  /\ hist'[1].name \in DOMAIN sets

\* C15: cleanup_unused_media(name) deletes exactly the files of images/ and
\* sounds/ whose name is not the media reference of any block on either side
\* of any card of the set it loads, returns the files it deleted, and leaves
\* every file whose name some block refers to in place with its content.
C15_CleanupRemovesUnreferenced ==
  [][CleanupDone =>
       LET name == hist'[1].name
           fs == cache'[name]
           Unreferenced(folder) ==
             {<< folder, f >> : f \in (DOMAIN FilesOf(sets[name][folder])) \ ReferencedBy(fs)}
       IN  /\ \A folder \in {"images", "sounds"} :
                 LET before == FilesOf(sets[name][folder])
                     after == FilesOf(sets'[name][folder])
                 IN  /\ DOMAIN after = (DOMAIN before) \cap ReferencedBy(fs)
                     /\ \A f \in DOMAIN after : after[f] = before[f]
           /\ hist'[1].obj.removed_files = Unreferenced("images") \cup Unreferenced("sounds")]_vars
C15_Witness ==
  /\ Was(1, "cleanup_unused_media", "ok")
  /\ last.obj.removed_files # {}
  /\ \E k \in DOMAIN cache : \E b \in MediaBlocksOf(cache[k]) :
       /\ b.block_type \in BlockTypes /\ get_full_path(b)[2] # << >>
       /\ RefersToStoredFile(cache[k], b)
       /\ << get_full_path(b)[1], get_full_path(b)[2] >> \notin last.obj.removed_files

\* the checks of the claim, in its order, with "empty" read as blank (nothing
\* but spaces) or as the empty string
IsBlank(name) == \A i \in 1..Len(name) : name[i] = " "
HasIllegalChar(name) == \E i \in 1..Len(name) : name[i] \in {"<", ">", ":", "\"", "/", "\\", "|", "?", "*"}
Validated == last.op = "validate_set_name" /\ last.result = "ok"

\* C19 as stated: the checks are applied in the order empty, longer than 128,
\* illegal character, already listed, the reason is that of the first check
\* that fails, and (True, "") is returned exactly for a name that is not the
\* empty string, has at most 128 characters, none of <>:"/\|?* and is not listed.
C19_Original ==
  Validated =>
    /\ last.how[1] =
         IF last.name = << >> THEN "Set name cannot be empty"
         ELSE IF Len(last.name) > 128 THEN "Set name cannot exceed 128 characters"
         ELSE IF HasIllegalChar(last.name) THEN "Set name contains invalid characters"
         ELSE IF last.name \in SetNames(sets) THEN "Set name already exists"
         ELSE ""
    /\ last.obj.ok = (/\ last.name # << >> /\ Len(last.name) <= 128
                      /\ ~HasIllegalChar(last.name) /\ last.name \notin SetNames(sets))
\* C19, amended: the same with the first check rejecting every name that is
\* empty or consists of whitespace only.
C19_ValidateSetNameOrder ==
  Validated =>
    /\ last.how[1] =
         IF IsBlank(last.name) THEN "Set name cannot be empty"
         ELSE IF Len(last.name) > 128 THEN "Set name cannot exceed 128 characters"
         ELSE IF HasIllegalChar(last.name) THEN "Set name contains invalid characters"
         ELSE IF last.name \in SetNames(sets) THEN "Set name already exists"
         ELSE ""
    /\ last.obj.ok = (/\ ~IsBlank(last.name) /\ Len(last.name) <= 128
                      /\ ~HasIllegalChar(last.name) /\ last.name \notin SetNames(sets))
C19_Witness ==
  /\ Validated /\ Was(2, "validate_set_name", "ok")
  /\ last.name = NameBlank /\ ~last.obj.ok /\ last.how = << "Set name cannot be empty" >>
  /\ hist[2].name = NameLongBad
  /\ hist[2].how = << "Set name cannot exceed 128 characters" >>
  /\ NameLong \in SetNames(sets)

\* C17: copy_media_file never overwrites a file: the name it returns was not
\* in the target folder before the call, every file of that folder is there
\* afterwards with the content it had, and the name is the sanitized base name
\* when that is free, else stem_k.ext for the smallest k >= 1 that is free.
CopyDone ==
  /\ hist'[1].n = last.n + 1
  /\ hist'[1].op = "copy_media_file" /\ hist'[1].result = "ok"
C17_CopyNeverOverwrites ==
  [][CopyDone =>
       LET set_name == hist'[1].name
           dest == hist'[1].to
           source == hist'[1].obj.source
           folder == MediaFolder(hist'[1].how[1])
           before == FilesOf((IF set_name \in DOMAIN sets THEN sets[set_name]
                              ELSE NoSetDir)[folder])
           after == FilesOf(sets'[set_name][folder])
           safe == safe_filename(source.name)
           Numbered(k) == Stem(safe) \o << "_" >> \o Str(k) \o Suffix(safe)
       IN  /\ dest \notin DOMAIN before
           /\ DOMAIN after = (DOMAIN before) \cup {dest}
           /\ \A f \in DOMAIN before : after[f] = before[f]
           /\ after[dest] = source.bytes
           /\ IF safe \notin DOMAIN before THEN dest = safe
              ELSE \E k \in 1..(Cardinality(DOMAIN before) + 1) :
                     /\ dest = Numbered(k)
                     /\ \A j \in 1..(k - 1) : Numbered(j) \in DOMAIN before]_vars
C17_Witness ==
  /\ Was(1, "copy_media_file", "ok")
  /\ last.name = NameA /\ last.how = << "image" >>
  /\ last.obj.source.name = << "p", ".", "g" >>
  /\ last.to = << "p", "_", "2", ".", "g" >>
  /\ DOMAIN FilesOf(sets[NameA].images) =
       { << "p", ".", "g" >>, << "p", "_", "1", ".", "g" >>, << "p", "_", "2", ".", "g" >> }

\* a set directory with nothing missing: both files, set.json parsable, both
\* media folders
IntactSet(d) ==
  /\ IsPresent(d.json) /\ Parses(Content(d.json))
  /\ IsPresent(d.cards) /\ IsPresent(d.images) /\ IsPresent(d.sounds)
IntegrityChecked == last.op = "validate_vault_integrity"

\* C16: validate_vault_integrity never raises; when exactly one set lacks its
\* cards.json and everything else is intact it returns (False, issues) with the
\* single issue "Missing cards.json" of that set; for a vault without a defect
\* it returns (True, []); and every defect of a listed set is reported whatever
\* the state of the other sets.
C16_IntegrityReport ==
  IntegrityChecked =>
    /\ last.result = "ok"
    /\ last.obj.valid = (last.obj.issues = {})
    /\ \A X \in DOMAIN sets :
         (/\ sets_dir
          /\ ~IsPresent(sets[X].cards)
          /\ IntactSet([sets[X] EXCEPT !.cards = Some([cards |-> << >>])])
          /\ \A n \in (DOMAIN sets) \ {X} : IntactSet(sets[n]))
         => /\ ~last.obj.valid
            /\ last.obj.issues = {[set_name |-> X, issue |-> "Missing cards.json"]}
    /\ (sets_dir /\ \A n \in DOMAIN sets : IntactSet(sets[n]))
         => last.obj.valid /\ last.obj.issues = {}
    /\ sets_dir =>
         \A n \in get_available_sets :
           /\ ~IsPresent(sets[n].cards) =>
                [set_name |-> n, issue |-> "Missing cards.json"] \in last.obj.issues
           /\ ~Parses(Content(sets[n].json)) =>
                [set_name |-> n, issue |-> "Invalid metadata"] \in last.obj.issues
           /\ ~IsPresent(sets[n].images) =>
                [set_name |-> n, issue |-> "Missing images directory"] \in last.obj.issues
           /\ ~IsPresent(sets[n].sounds) =>
                [set_name |-> n, issue |-> "Missing sounds directory"] \in last.obj.issues
C16_Witness ==
  /\ IntegrityChecked
  /\ DOMAIN sets = {NameA, NameB}
  /\ ~IsPresent(sets[NameA].cards) /\ IntactSet(sets[NameB])
  /\ IntactSet([sets[NameA] EXCEPT !.cards = Some([cards |-> << >>])])
  /\ last.obj.issues = {[set_name |-> NameA, issue |-> "Missing cards.json"]}

\* C18: after any sequence of set_image / set_audio / set_video calls made with
\* a vault manager and the set name on the blocks of a set, every block whose
\* media reference is not empty names a file that exists in the images/ folder
\* (image) or the sounds/ folder (audio, video) of that set.
C18_Original ==
  \A k \in DOMAIN cache : \A b \in MediaBlocksOf(cache[k]) :
    (b.block_type \in BlockTypes /\ get_full_path(b)[2] # << >>) =>
      RefersToStoredFile(cache[k], b)

\* C20: in every state reached through create_set, save_set, rename_set,
\* update_set_metadata, import_set and import_vault, every listed set has a
\* name that is not empty, has at most 128 characters and none of the
\* characters <>:"/\|?*, and no two listed sets carry the same name in their
\* set.json.
C20_Original ==
  /\ \A n \in SetNames(sets) : n # << >> /\ Len(n) <= 128 /\ ~HasIllegalChar(n)
  /\ \A n1, n2 \in SetNames(sets) :
       n1 # n2 => Content(sets[n1].json).name # Content(sets[n2].json).name

\* a call of `op` is made in this step
Calls(op) == hist'[1].op = op /\ hist'[1].n = last.n + 1
\* the name fails one of the four checks: empty (or blank), too long, illegal
\* character, already listed
Rejected(name) ==
  \/ IsBlank(name)
  \/ Len(name) > 128
  \/ HasIllegalChar(name)
  \/ name \in SetNames(sets)

\* C21: create_set with a name that is empty, too long, has an illegal
\* character or is already listed raises ValueError and leaves the vault as it
\* was: no directory is created, no file of a set is changed, the cache is
\* unchanged.
C21_CreateSetRejects ==
  [][(Calls("create_set") /\ Rejected(hist'[1].name)) =>
       /\ hist'[1].result = "ValueError"
       /\ sets' = sets /\ cache' = cache /\ sets_dir' = sets_dir]_vars
C21_Witness ==
  /\ Was(1, "create_set", "ValueError") /\ last.name = NameA
  /\ Was(2, "create_set", "ValueError") /\ hist[2].name = NameLong
  /\ Was(3, "create_set", "ok") /\ hist[3].name = NameA
  /\ SetNames(sets) = {NameA}

\* C22: rename_set(old, new) with old # new and new invalid or already listed
\* raises ValueError and leaves every set directory and the cache unchanged;
\* rename_set(x, x) raises nothing and changes nothing.
C22_RenameSetRejects ==
  [][Calls("rename_set") =>
       /\ (hist'[1].name # hist'[1].to /\ Rejected(hist'[1].to)) =>
             /\ hist'[1].result = "ValueError"
             /\ sets' = sets /\ cache' = cache
       /\ hist'[1].name = hist'[1].to =>
             /\ hist'[1].result = "ok"
             /\ sets' = sets /\ cache' = cache]_vars
C22_Witness ==
  /\ Was(1, "rename_set", "ValueError") /\ last.name = NameA /\ last.to = NameBad
  /\ Was(2, "rename_set", "ok") /\ hist[2].name = NameA /\ hist[2].to = NameA
  /\ Was(3, "create_set", "ok") /\ hist[3].name = NameA
  /\ SetNames(sets) = {NameA} /\ DOMAIN cache = {NameA}

\* f and g agree everywhere but at the key k
SameBut(f, g, k) ==
  /\ (DOMAIN f) \ {k} = (DOMAIN g) \ {k}
  /\ \A x \in (DOMAIN f) \ {k} : f[x] = g[x]

\* C23: delete_set(name) raises the not-found error and changes nothing when
\* the set directory is absent; otherwise name is afterwards neither listed nor
\* cached, a load_set(name) that follows raises not-found, and every other set
\* and cache entry is as before.
C23_DeleteSetEvicts ==
  [][/\ Calls("delete_set") =>
          IF hist'[1].name \notin DOMAIN sets
          THEN /\ hist'[1].result = "FileNotFoundError"
               /\ sets' = sets /\ cache' = cache
          ELSE /\ hist'[1].result = "ok"
               /\ hist'[1].name \notin SetNames(sets')
               /\ hist'[1].name \notin DOMAIN cache'
               /\ SameBut(sets', sets, hist'[1].name)
               /\ SameBut(cache', cache, hist'[1].name)
     /\ (Calls("load_set") /\ Was(1, "delete_set", "ok") /\ hist'[1].name = last.name) =>
          /\ hist'[1].result = "FileNotFoundError"
          /\ cache' = cache]_vars
C23_Witness ==
  /\ Was(1, "load_set", "FileNotFoundError") /\ last.name = NameA
  /\ Was(2, "delete_set", "ok") /\ hist[2].name = NameA
  /\ Was(3, "create_set", "ok") /\ hist[3].name = NameA /\ hist[3].obj.name = NameA
  /\ NameA \notin DOMAIN cache /\ NameA \notin SetNames(sets)

\* a set directory that load_set cannot turn into a set
HasUnknownBlock(cards_data) ==
  \E i \in 1..Len(cards_data.cards) :
    \E side \in {"information_side", "answer_side"} :
      \E j \in 1..Len(cards_data.cards[i][side]) :
        cards_data.cards[i][side][j].block_type \notin {"text", "image", "audio", "video"}
Defective(d) ==
  \/ ~IsPresent(d.json)
  \/ Content(d.json) = Unparsable
  \/ "name" \notin DOMAIN Content(d.json)
  \/ /\ IsPresent(d.cards)
     /\ \/ Content(d.cards) = Unparsable
        \/ Content(d.cards) # Unparsable /\ HasUnknownBlock(Content(d.cards))

\* C24: a load_set(name) that fails leaves the cache exactly as it was, and a
\* load_set of a set that is not cached fails when the set is absent, its
\* set.json or cards.json is malformed or a block has an unknown type.
C24_FailedLoadKeepsCache ==
  [][Calls("load_set") =>
       /\ hist'[1].result # "ok" => cache' = cache
       /\ (/\ hist'[1].name \notin DOMAIN cache
           /\ \/ hist'[1].name \notin DOMAIN sets
              \/ hist'[1].name \in DOMAIN sets /\ Defective(sets[hist'[1].name])) =>
             hist'[1].result # "ok"]_vars
C24_Witness ==
  /\ Was(1, "load_set", "IOError") /\ last.name = NameB /\ last.how = << "disk" >>
  /\ Was(2, "load_set", "ok") /\ hist[2].name = NameA /\ hist[2].how = << "disk" >>
  /\ DOMAIN cache = {NameA}
  /\ sets[NameB].cards = Some(UnknownBlockCards)

\* C25: import_set with a chosen name that is invalid or that names a listed
\* set fails with ValueError, and the vault is unchanged: the set directories
\* keep their files and no icon set is installed.
C25_Original ==
  [][(Calls("import_set") /\ hist'[1].to # << >> /\ Rejected(hist'[1].to)) =>
       /\ hist'[1].result = "ValueError"
       /\ sets' = sets /\ icons' = icons /\ available' = available]_vars

\* C26: after install_custom_icon(source, newName) with a supported, readable
\* image the directory of newName holds exactly the five files 16.png, 32.png,
\* 64.png, 128.png and 256.png, made from the source, validate_icon_set(newName)
\* is true and newName is in the list of available icon sets.
C26_InstallMakesFiveSizes ==
  Was(1, "install_custom_icon", "ok") =>
    LET newName == last.how[1]
    IN  /\ newName \in DOMAIN icons
        /\ DOMAIN icons[newName] = {16, 32, 64, 128, 256}
        /\ \A size \in {16, 32, 64, 128, 256} : icons[newName][size] = last.how[2]
        /\ validate_icon_set(icons, newName)
        /\ newName \in available
C26_Witness ==
  /\ Was(1, "install_custom_icon", "ok") /\ last.how = << IconI, "img1" >>
  /\ Was(2, "install_custom_icon", "ValueError") /\ hist[2].how = << IconI, "corrupt" >>
  /\ available = {DefaultIcon, IconI}

\* C27: delete_icon_set("default") raises ValueError and leaves the five files
\* of the default icon set and the list of available icon sets unchanged.
C27_DefaultIsNotDeleted ==
  [][(Calls("delete_icon_set") /\ hist'[1].how = << "default" >>) =>
       /\ hist'[1].result = "ValueError"
       /\ icons' = icons
       /\ available' = available]_vars
C27_Witness ==
  /\ Was(1, "delete_icon_set", "ValueError") /\ last.how = << DefaultIcon >>
  /\ Was(2, "delete_icon_set", "ok") /\ hist[2].how = << IconI >>
  /\ DOMAIN icons[DefaultIcon] = {16, 32, 64, 128, 256}
  /\ available = {DefaultIcon}

\* C28: in every state reached through install_custom_icon,
\* create_educational_icon_set, delete_icon_set, import_set and import_vault
\* (merge or replace), the icon set "default" is on disk with all five sizes
\* and is in the list of available icon sets.
C28_Original ==
  /\ "default" \in DOMAIN icons
  /\ {16, 32, 64, 128, 256} \subseteq DOMAIN icons["default"]
  /\ "default" \in available

\* C29: in every state reached through the operations of the registry, every
\* name in the list of available icon sets names a directory that has all five
\* size files.
C29_Original ==
  \A name \in available :
    /\ name \in DOMAIN icons
    /\ {16, 32, 64, 128, 256} \subseteq DOMAIN icons[name]

\* C30: a single-set archive carries the icon set of its set: when set S names
\* an icon set I that validates at the time of export_set(S), and the archive
\* is imported with import_set into a registry that has no icon set I, then I
\* is present, validates and is listed as available after the import.
C30_SetArchiveCarriesIcon ==
  (/\ Was(1, "import_set", "ok")
   /\ Was(2, "delete_icon_set", "ok")
   /\ Was(3, "export_set", "ok")
   /\ hist[3].obj.icon_valid
   /\ hist[2].how = << hist[3].obj.icon_set >>) =>
    LET I == hist[3].obj.icon_set
    IN  /\ I \in DOMAIN icons
        /\ validate_icon_set(icons, I)
        /\ I \in available
        /\ Content(sets[last.name].json).icon_set = I
C30_Witness ==
  /\ Was(1, "import_set", "ok") /\ last.name = NameA
  /\ Was(2, "delete_icon_set", "ok") /\ hist[2].how = << IconI >>
  /\ Was(3, "export_set", "ok") /\ hist[3].name = NameB
  /\ hist[3].obj.icon_valid /\ hist[3].obj.icon_set = IconI
  /\ IconI \in available /\ \A size \in icon_sizes : icons[IconI][size] = "img2"

\* C31: every set persisted by create_set, save_set or update_set_metadata has
\* a difficulty_level between 1 and 5; a call that would store a value outside
\* 1..5 is rejected and leaves the stored value unchanged.
C31_Original ==
  \A n \in SetNames(sets) :
    /\ Content(sets[n].json).difficulty_level >= 1
    /\ Content(sets[n].json).difficulty_level <= 5

\* the two sides of the card that the blocks are added to
InformationSide(c) == c[NameA].cards[1].information_side
AnswerSide(c) == c[NameA].cards[1].answer_side

\* C32: each side of a card holds at most 10 blocks in every state reached
\* through add_block_to_side, remove_block_from_side and move_block;
\* add_block_to_side on a side that has 10 blocks raises ValueError and leaves
\* both sides unchanged, and adding to one side never changes the other side.
C32_SideHoldsAtMostTen ==
  [][/\ Len(InformationSide(cache')) <= 10
     /\ Len(AnswerSide(cache')) <= 10
     /\ Calls("add_block_to_side") =>
          /\ hist'[1].how = << "information" >> =>
                /\ AnswerSide(cache') = AnswerSide(cache)
                /\ Len(InformationSide(cache)) = 10 =>
                      /\ hist'[1].result = "ValueError"
                      /\ InformationSide(cache') = InformationSide(cache)
          /\ hist'[1].how = << "answer" >> =>
                /\ InformationSide(cache') = InformationSide(cache)
                /\ Len(AnswerSide(cache)) = 10 =>
                      /\ hist'[1].result = "ValueError"
                      /\ AnswerSide(cache') = AnswerSide(cache)]_vars
C32_Witness ==
  /\ Was(1, "add_block_to_side", "ValueError") /\ last.how = << "answer" >>
  /\ Was(2, "add_block_to_side", "ok") /\ hist[2].how = << "answer" >>
  /\ Was(3, "move_block", "ok") /\ hist[3].how = << "answer" >>
  /\ Len(AnswerSide(cache)) = 10 /\ AnswerSide(cache)[10].block_id = 21
  /\ AnswerSide(cache)[1].block_id = 13
  /\ Len(InformationSide(cache)) = 1

\* C33: safe_filename returns a string that is not empty, has at most 255
\* characters, none of the characters <>:"/\|?* and no leading or trailing dot
\* or space; safe_filename of its own output is that output.
C33_Original ==
  Was(1, "safe_filename", "ok") =>
    LET out == last.to
    IN  /\ out # << >>
        /\ Len(out) <= 255
        /\ ~HasIllegalChar(out)
        /\ out[1] \notin {".", " "}
        /\ out[Len(out)] \notin {".", " "}
        /\ safe_filename(out) = out

\* C34: every cache entry is stored under the key equal to the name field of
\* the cached set.
C34_Original == \A k \in DOMAIN cache : cache[k].name = k

\* C35: every cache key names a set that is listed on disk (a directory of
\* sets/ that holds a set.json), also after an import_vault that fails
\* part-way or returns early.
C35_Original == \A k \in DOMAIN cache : k \in SetNames(sets)

\* C36: the name field in the set.json of each listed set equals the name of
\* the directory that holds it.
C36_Original ==
  \A n \in SetNames(sets) : Get(Content(sets[n].json), "name", << "?" >>) = n

\* a set directory that an archive entry is the export of: the entry with its
\* media folders, empty when the archive holds no file of theirs
Restored(z) ==
  [z EXCEPT !.images = Some(FilesOf(z.images)), !.sounds = Some(FilesOf(z.sounds))]

\* C37: when the archive is the export of a set for which validate_vault_integrity
\* has no issue (set.json, cards.json, images/ and sounds/ present, the media
\* folders possibly empty), validate_vault_integrity has no issue for the set
\* that import_set creates under a new name, nor for a set that a merge-mode
\* import_vault creates in an empty vault.
C37_Original ==
  /\ (Was(1, "import_set", "ok") /\ last.to # << >> /\ IntactSet(Restored(archive.root)))
       => SetIssues(sets, last.name) = {}
  /\ (/\ Was(1, "import_vault", "ok") /\ last.how = << >>
      /\ iv.log # << >> /\ iv.log[1].existing_sets = {})
       => \A i \in 1..Len(iv.imported) :
            IntactSet(Restored(archive.sets[iv.imported[i]]))
              => SetIssues(sets, iv.imported[i]) = {}

\* the passes of the merge loop that copied a staged set to its destination
Written == {i \in 1..Len(iv.log) : ~iv.log[i].skipped /\ ~iv.log[i].failed}

\* C38: during and after a merge-mode import_vault every set that was listed
\* before the call is still there with the files it had, and no two staged
\* sets have been written to the same destination name.
C38_Original ==
  (InImportVault /\ last.how = << >> /\ iv.log # << >>) =>
    /\ \A X \in SetNames(iv.log[1].before) :
         X \in DOMAIN sets /\ sets[X] = iv.log[1].before[X]
    /\ \A i \in Written, j \in Written :
         i # j => iv.log[i].import_name # iv.log[j].import_name

\* C39: when a merge-mode import_vault returns its result, every staged set
\* directory is accounted for exactly once, by its final name in 'imported' or
\* by its original name in 'ignored'; every pair (original, new) of 'renamed'
\* has new in 'imported' and original not in 'ignored'; and every name in
\* 'imported' is a listed set.
C39_Original ==
  (Was(1, "import_vault", "ok") /\ last.how = << >> /\ iv.log # << >>) =>
    /\ Len(iv.imported) + Len(iv.ignored) = Cardinality(DOMAIN archive.sets)
    /\ Cardinality(Range(iv.ignored)) = Len(iv.ignored)
    /\ \A X \in DOMAIN archive.sets :
         X \notin Range(iv.ignored) =>
           \E F \in Range(iv.imported) : F = X \/ << X, F >> \in Range(iv.renamed)
    /\ \A F \in Range(iv.imported) :
         \E X \in (DOMAIN archive.sets) \ Range(iv.ignored) :
           F = X \/ << X, F >> \in Range(iv.renamed)
    /\ \A pair \in Range(iv.renamed) :
         pair[2] \in Range(iv.imported) /\ pair[1] \notin Range(iv.ignored)
    /\ \A F \in Range(iv.imported) : F \in SetNames(sets)

====
